---- MODULE Spec2Model ----
(***************************************************************************)
(* A model of buf's module resolution engine: the module set builder's     *)
(* deduplication of added modules (bufmodule), the ModuleDataProvider and  *)
(* CommitProvider implementations (bufmoduleapi, bufmoduletesting), and    *)
(* the digest-verifying lazy Module.                                       *)
(*                                                                         *)
(* Strings that the code orders or concatenates (module names, OpaqueIDs)  *)
(* are sequences of code points, so that String() and "<" are computed.    *)
(* Go pointers and nilable values are sets: {} is nil, {v} is a value.     *)
(***************************************************************************)
EXTENDS Integers, Sequences, FiniteSets, TLC

VARIABLES
    addedModules,        \* moduleSetBuilder: the addedModules, in Add order
    commitProvider,      \* moduleSetBuilder: the CommitProvider it was built with
    moduleDataProvider,  \* moduleSetBuilder: the ModuleDataProvider it was built with
    buildResult,         \* {} before Build, {[modules, err]} after
    cpCalls,             \* every key list passed to CommitProvider.GetCommitsForModuleKeys
    mdpCalls,            \* every key list passed to ModuleDataProvider.GetModuleDatasForModuleKeys
    registry,            \* the BSR: what it answers for each commit ID
    omni,                \* the OmniProvider: the modules and commits it was made with
    providerCall,        \* {} or {[impl, op, moduleKeys, outcome]}: a call on a provider
    requests,            \* the RPCs [rpc, registry, items] the provider sent, in order
    accessed,            \* the [index, part] of the returned ModuleDatas that were read
    lazyModule,          \* the lazyModule: its ModuleInfo and what getModuleFunc yields
    lazyOnce,            \* sync.OnceValues: {} until getModuleFunc ran, then {its result}
    reads,               \* the number of read operations made on the lazyModule
    readResult,          \* {} or {[op, data, err]}: what the last read operation returned
    moduleFetches,       \* the runs of the function newLazyModule was given
    moduleSeen,          \* every outcome m.getModuleFunc() gave to a read operation
    keyResult,           \* {} or {what the ModuleKey constructor returned}
    digestOnce,          \* sync.OnceValues of the key: {} until getDigest ran, then {its result}
    digestCalls,         \* the number of Digest() calls made on the ModuleKey
    digestFetches,       \* the runs of the function NewModuleKeyForLazyDigest was given
    digestSeen,          \* every outcome Digest() returned
    digestResult,        \* {} or {[result, fetched]}: what the last Digest() returned
    depEdges,            \* the dependencies of the modules given to Build: <<module, dep>>
    graphBuild,          \* {} before Build, then {the ModuleSet or the error it returned}
    b5Module,            \* the Module that ModuleDigestB5 is given
    b5First,             \* {} or {[module, result]}: the first ModuleDigestB5 call
    b5Last,              \* {} or {[module, result]}: the last ModuleDigestB5 call
    b5Changes,           \* the number of changes made to the Module
    moduleSet,           \* cache.moduleSet: the Modules of the ModuleSet, in Modules() order
    setModuleSetCalled,  \* cache.setModuleSetCalled
    setModuleSetErrs,    \* what each call of cache.setModuleSet returned: {} or {err}
    filePathToModule,    \* cache.filePathToModule: file path to (Module, error) tuple
    filePathToImports,   \* cache.filePathToImports: file path to (imports, error) tuple
    lock,                \* cache.lock: {} or {the caller that holds it for writing}
    callers,             \* each caller of the cache: where it is in its call
    moduleScans,         \* per file path, the runs of getModuleForFilePathUncached
    importScans,         \* per file path, the runs of getImportsForFilePathUncached
    cacheCalls,          \* the number of calls made on the cache
    returned,            \* every [op, filePath, result] a cache call returned
    inputCall,           \* {} or {[op, specified, external, config, err]}: the InputConfig constructor call made
    inputBack,           \* {} or {[external, err]}: the config written back to its external form
    createWithVisibility, \* {} (nil) or {visibility}: syncHandler.createWithVisibility
    commitsToSync,       \* moduleBranch.CommitsToSync(): [hash, bucketErr] of each commit, oldest first
    syncPos,             \* the index in commitsToSync of the commit SyncModuleBranch works on
    syncPc,              \* where SyncModuleBranch is: "idle", "Bucket", "Push", "Create", "RetryPush", "Stderr", "Returned"
    syncPoint,           \* {} or {the GitSyncPoint pushOrCreate returned for the commit at syncPos}
    syncCalls,           \* the calls [op, hash, code] of push and create made so far, in order
    syncStderr,          \* the hashes of the sync lines written to stderr, in order
    syncReturned,        \* {} or {[err]}: what SyncModuleBranch returned
    bsrRepositories,     \* the registry: module name -> {} or {[id, defaultBranch]}, its repository
    bsrPages,            \* the registry: the pages of branch names listed for the commit asked about
    moduleFullNameToRepositoryIDCache,  \* syncHandler: module name -> {} (no entry) or {repository ID}
    moduleFullNameToDefaultBranchCache, \* syncHandler: module name -> {} (no entry) or {release branch}
    releaseLookups,      \* module name -> the number of NotFound answers IsReleaseBranch got for it
    lookupReturned,      \* {} or {[op, name, branchName, value, head, err, requests]}: the last lookup
    functionOptions,     \* the receiver *functionOptions: its targetPaths and targetExcludePaths slices
    pathsCall            \* {} or {[given, options, err]}: the call of withPathsForBucketExtender made

builderVars == <<addedModules, commitProvider, moduleDataProvider, buildResult, cpCalls, mdpCalls>>

providerVars == <<registry, omni, providerCall, requests, accessed>>

lazyVars == <<lazyModule, lazyOnce, reads, readResult, moduleFetches, moduleSeen>>

keyVars == <<keyResult, digestOnce, digestCalls, digestFetches, digestSeen, digestResult>>

cacheVars == <<moduleSet, setModuleSetCalled, setModuleSetErrs, filePathToModule, filePathToImports, lock, callers,
               moduleScans, importScans, cacheCalls, returned>>

graphVars == <<depEdges, graphBuild>>

b5Vars == <<b5Module, b5First, b5Last, b5Changes>>

inputVars == <<inputCall, inputBack>>

syncVars == <<createWithVisibility, commitsToSync, syncPos, syncPc, syncPoint, syncCalls, syncStderr,
              syncReturned>>

lookupVars == <<bsrRepositories, bsrPages, moduleFullNameToRepositoryIDCache,
                moduleFullNameToDefaultBranchCache, releaseLookups, lookupReturned>>

pathVars == <<functionOptions, pathsCall>>

\* The variables of the parts added after the digest study.
tailVars == <<inputVars, syncVars, lookupVars, pathVars>>

vars == <<builderVars, providerVars, lazyVars, cacheVars, keyVars, graphVars, b5Vars, tailVars>>

(***************************************************************************)
(* Bounds of the model.                                                    *)
(***************************************************************************)
MaxAdded == 3

\* The length of the key list of a provider call.
MaxKeys == 2

\* The number of read operations made on a lazy module.
MaxReads == 2

\* The number of calls of cache.setModuleSet.
MaxSetCalls == 2

\* The number of parts read of the ModuleDatas a provider returned.
MaxAccesses == 2

(***************************************************************************)
(* Generic helpers.                                                        *)
(***************************************************************************)
Only(S) == CHOOSE x \in S : TRUE

Range(s) == {s[i] : i \in DOMAIN s}

\* Every order in which a Go map with key set S can be iterated.
RECURSIVE Perms(_)
Perms(S) == IF S = {} THEN {<<>>} ELSE UNION {{<<x>> \o p : p \in Perms(S \ {x})} : x \in S}

\* Go's "<" on strings: lexicographic on the code points.
StrLess(a, b) ==
    \E i \in 1..Len(b) :
        /\ \A k \in 1..(i - 1) : k <= Len(a) /\ a[k] = b[k]
        /\ (i > Len(a) \/ (i <= Len(a) /\ a[i] < b[i]))

(***************************************************************************)
(* Errors. errors.Is follows the Unwrap chain (field err of a wrapper).    *)
(***************************************************************************)
ErrNotExist == [kind |-> "fs.ErrNotExist"]

PathError(op, path, err) == [kind |-> "fs.PathError", op |-> op, path |-> path, err |-> err]

\* fmt.Errorf(msg + ": %w", err)
WrapError(msg, err) == [kind |-> "fmt.wrapError", msg |-> msg, err |-> err]

\* fmt.Errorf without %w, errors.New
NewError(msg) == [kind |-> "errors.errorString", msg |-> msg]

SysError(msg) == [kind |-> "syserror", msg |-> msg]

RECURSIVE ErrorsIs(_, _)
ErrorsIs(err, target) ==
    \/ err = target
    \/ ("err" \in DOMAIN err /\ ErrorsIs(err.err, target))

(***************************************************************************)
(* ModuleFullName and ModuleKey.                                           *)
(***************************************************************************)
\* registry/owner/name
ModuleFullNameString(moduleFullName) ==
    moduleFullName.registry \o <<47>> \o moduleFullName.owner \o <<47>> \o moduleFullName.name

\* "b/o/m", "b/o/n", "c/o/m", "c/o/n"
ModuleFullNames == [registry : {<<98>>, <<99>>}, owner : {<<111>>}, name : {<<109>>, <<110>>}]

\* The names the builder is fed: two modules of one registry.
BuilderFullNames == {n \in ModuleFullNames : n.registry = <<98>>}

\* ".": the bucket ID of an unnamed local module.
BucketIDs == {<<46>>}

CommitIDs == {"c1", "c2"}

CreateTimes == {1, 2}

ModuleKeys == [moduleFullName : ModuleFullNames, commitID : CommitIDs]

\* The keys the builder is fed: "b/o/m" at either commit, "b/o/n" at "c1".
BuilderModuleKeys ==
    {k \in [moduleFullName : BuilderFullNames, commitID : CommitIDs] :
        k.moduleFullName.name = <<109>> \/ k.commitID = "c1"}

(***************************************************************************)
(* addedModule.                                                            *)
(***************************************************************************)
\* The commit ID a named local Module is given (LocalModuleWithModuleFullNameAndCommitID).
LocalCommitIDs == {"c1"}

\* The name a workspace module may carry: "b/o/m".
LocalFullNames == {n \in BuilderFullNames : n.name = <<109>>}

\* A local Module: named, with a commit ID (moduleFullName = {name}, commitID = {id}),
\* or unnamed (both {}).
LocalModules ==
    [moduleFullName : {{n} : n \in LocalFullNames}, commitID : {{c} : c \in LocalCommitIDs},
     bucketID : BucketIDs]
    \cup [moduleFullName : {{}}, commitID : {{}}, bucketID : BucketIDs]

\* Module.OpaqueID of a local Module: its full name if it has one, else its bucket ID.
LocalOpaqueID(localModule) ==
    IF localModule.moduleFullName # {}
    THEN ModuleFullNameString(Only(localModule.moduleFullName))
    ELSE localModule.bucketID

\* ptr is the identity of the *addedModule: its position in the builder's list.
newLocalAddedModule(ptr, localModule, isTarget) ==
    [ptr |-> ptr, localModule |-> {localModule}, remoteModuleKey |-> {}, isTarget |-> isTarget]

newRemoteAddedModule(ptr, remoteModuleKey, isTarget) ==
    [ptr |-> ptr, localModule |-> {}, remoteModuleKey |-> {remoteModuleKey}, isTarget |-> isTarget]

IsLocal(a) == a.localModule # {}

IsTarget(a) == a.isTarget

OpaqueID(a) ==
    IF a.remoteModuleKey # {}
    THEN ModuleFullNameString(Only(a.remoteModuleKey).moduleFullName)
    ELSE LocalOpaqueID(Only(a.localModule))

\* slicesext.ToValuesMap(addedModules, OpaqueID): OpaqueID -> the entries with that
\* OpaqueID, in slice order.
opaqueIDToAddedModules(addedModulesIn) ==
    [id \in {OpaqueID(addedModulesIn[i]) : i \in DOMAIN addedModulesIn} |->
        SelectSeq(addedModulesIn, LAMBDA a : OpaqueID(a) = id)]

(***************************************************************************)
(* CommitProvider: nopCommitProvider and the OmniProvider.                 *)
(***************************************************************************)
\* An OmniProvider knows the create time of every commit ID it was given; the
\* builder is handed it or the NopCommitProvider.
CommitProviders ==
    {[impl |-> "nop", commitIDToCreateTime |-> [c \in {} |-> 1]]}
    \cup {[impl |-> "omni", commitIDToCreateTime |-> m] :
            m \in {f \in [CommitIDs -> CreateTimes] : 1 \in Range(f)}}

nopGetCommitsForModuleKeys(moduleKeys) == [commits |-> <<>>, err |-> {ErrNotExist}]

RECURSIVE omniGetCommitsLoop(_, _, _, _)
omniGetCommitsLoop(commitIDToCreateTime, moduleKeys, i, commits) ==
    IF i > Len(moduleKeys) THEN [commits |-> commits, err |-> {}]
    ELSE IF moduleKeys[i].commitID \notin DOMAIN commitIDToCreateTime
         THEN [commits |-> <<>>, err |-> {PathError("read", moduleKeys[i], ErrNotExist)}]
         ELSE omniGetCommitsLoop(
                 commitIDToCreateTime, moduleKeys, i + 1,
                 Append(commits, [moduleKey |-> moduleKeys[i],
                                  createTime |-> commitIDToCreateTime[moduleKeys[i].commitID]]))

omniGetCommitsForModuleKeys(commitIDToCreateTime, moduleKeys) ==
    omniGetCommitsLoop(commitIDToCreateTime, moduleKeys, 1, <<>>)

\* A CommitProvider of another kind, as the interface allows: it answers with no
\* error and one Commit less than it was given ModuleKeys.
MiscountingCommitProviders ==
    {[impl |-> "short", commitIDToCreateTime |-> [c \in CommitIDs |-> IF c = "c1" THEN 1 ELSE 2]]}

shortGetCommitsForModuleKeys(commitIDToCreateTime, moduleKeys) ==
    LET got == omniGetCommitsForModuleKeys(commitIDToCreateTime, moduleKeys)
    IN  IF got.err # {} THEN got
        ELSE [commits |-> SubSeq(got.commits, 1, Len(got.commits) - 1), err |-> {}]

\* CommitProvider.GetCommitsForModuleKeys, dispatched on the implementation.
GetCommitsForModuleKeys(cp, moduleKeys) ==
    IF cp.impl = "nop"
    THEN nopGetCommitsForModuleKeys(moduleKeys)
    ELSE IF cp.impl = "short"
    THEN shortGetCommitsForModuleKeys(cp.commitIDToCreateTime, moduleKeys)
    ELSE omniGetCommitsForModuleKeys(cp.commitIDToCreateTime, moduleKeys)

(***************************************************************************)
(* Selection of one addedModule per OpaqueID.                              *)
(* A selection returns [addedModule, err, cpCalls]: the selected pointer   *)
(* or nil, the error or nil, and the CommitProvider calls it made.         *)
(***************************************************************************)
Selected(a, calls) == [addedModule |-> {a}, err |-> {}, cpCalls |-> calls]

Failed(err, calls) == [addedModule |-> {}, err |-> {err}, cpCalls |-> calls]

RemoteCommitID(a) == Only(a.remoteModuleKey).commitID

\* slicesext.ToValuesMap(addedModules, commit ID): commit ID -> the entries with that
\* commit ID, in slice order.
commitIDToAddedModules(addedModulesForOpaqueID) ==
    [c \in {RemoteCommitID(addedModulesForOpaqueID[i]) : i \in DOMAIN addedModulesForOpaqueID} |->
        SelectSeq(addedModulesForOpaqueID, LAMBDA a : RemoteCommitID(a) = c)]

\* Mutant: the comparison of create times reversed (Before instead of After).
RECURSIVE earliestCreateTimeIndex(_, _, _, _)
earliestCreateTimeIndex(commits, i, best, createTime) ==
    IF i > Len(commits) THEN best
    ELSE IF commits[i].createTime < createTime
         THEN earliestCreateTimeIndex(commits, i + 1, i, commits[i].createTime)
         ELSE earliestCreateTimeIndex(commits, i + 1, best, createTime)

\* The loop over commits[1:]: the index of the first commit with the latest create time.
RECURSIVE latestCreateTimeIndex(_, _, _, _)
latestCreateTimeIndex(commits, i, best, createTime) ==
    IF i > Len(commits) THEN best
    ELSE IF commits[i].createTime > createTime
         THEN latestCreateTimeIndex(commits, i + 1, i, commits[i].createTime)
         ELSE latestCreateTimeIndex(commits, i + 1, best, createTime)

\* commitOrder: the order in which Go iterates commitIDToAddedModules (any order of
\* commit IDs; the IDs that are not keys of the map are skipped).
\* Mutant: the CommitProvider is asked even when the entries share one commit ID.
selectRemoteAlwaysAsking(cp, addedModulesForOpaqueID, commitOrder) ==
    LET byCommitID == commitIDToAddedModules(addedModulesForOpaqueID)
        keyOrder == SelectSeq(commitOrder, LAMBDA c : c \in DOMAIN byCommitID)
        uniqueAddedModules == [i \in DOMAIN keyOrder |-> byCommitID[keyOrder[i]][1]]
        uniqueModuleKeys ==
            [i \in DOMAIN uniqueAddedModules |-> Only(uniqueAddedModules[i].remoteModuleKey)]
        got == GetCommitsForModuleKeys(cp, uniqueModuleKeys)
    IN  IF Len(addedModulesForOpaqueID) = 1
        THEN Selected(addedModulesForOpaqueID[1], <<>>)
        ELSE IF got.err # {}
        THEN Failed(WrapError("could not resolve modules from buf.lock", Only(got.err)),
                    <<uniqueModuleKeys>>)
        ELSE Selected(
                uniqueAddedModules[
                    latestCreateTimeIndex(got.commits, 2, 1, got.commits[1].createTime)],
                <<uniqueModuleKeys>>)

selectRemoteAddedModuleForOpaqueIDIgnoreTargeting(cp, addedModulesForOpaqueID, commitOrder) ==
    IF Len(addedModulesForOpaqueID) = 0
    THEN Failed(SysError("expected at least one remote addedModule"), <<>>)
    ELSE IF \E i \in DOMAIN addedModulesForOpaqueID : addedModulesForOpaqueID[i].remoteModuleKey = {}
    THEN Failed(SysError("got nil remoteModuleKey"), <<>>)
    ELSE IF Len(addedModulesForOpaqueID) = 1
    THEN Selected(addedModulesForOpaqueID[1], <<>>)
    ELSE IF Cardinality({OpaqueID(addedModulesForOpaqueID[i]) : i \in DOMAIN addedModulesForOpaqueID}) > 1
    THEN Failed(SysError("multiple ModuleFullNames detected"), <<>>)
    ELSE
        LET byCommitID == commitIDToAddedModules(addedModulesForOpaqueID)
            keyOrder == SelectSeq(commitOrder, LAMBDA c : c \in DOMAIN byCommitID)
            uniqueAddedModules == [i \in DOMAIN keyOrder |-> byCommitID[keyOrder[i]][1]]
        IN  IF Len(uniqueAddedModules) = 1
            THEN Selected(uniqueAddedModules[1], <<>>)
            ELSE
                LET uniqueModuleKeys ==
                        [i \in DOMAIN uniqueAddedModules |-> Only(uniqueAddedModules[i].remoteModuleKey)]
                    got == GetCommitsForModuleKeys(cp, uniqueModuleKeys)
                IN  IF got.err # {}
                    THEN Failed(WrapError("could not resolve modules from buf.lock", Only(got.err)),
                                <<uniqueModuleKeys>>)
                    ELSE Selected(
                            uniqueAddedModules[
                                latestCreateTimeIndex(got.commits, 2, 1, got.commits[1].createTime)],
                            <<uniqueModuleKeys>>)

\* Mutant: locality is not preferred; a remote entry added first is taken.
selectFirstAddedIgnoreTargeting(cp, addedModulesForOpaqueID, commitOrder) ==
    IF IsLocal(addedModulesForOpaqueID[1])
    THEN Selected(addedModulesForOpaqueID[1], <<>>)
    ELSE selectRemoteAddedModuleForOpaqueIDIgnoreTargeting(
             cp, SelectSeq(addedModulesForOpaqueID, LAMBDA a : ~IsLocal(a)), commitOrder)

\* Mutant: the last local entry is taken instead of the first.
selectLastLocalIgnoreTargeting(cp, addedModulesForOpaqueID, commitOrder) ==
    LET localAddedModules == SelectSeq(addedModulesForOpaqueID, IsLocal)
    IN  IF Len(localAddedModules) = 0
        THEN selectRemoteAddedModuleForOpaqueIDIgnoreTargeting(cp, addedModulesForOpaqueID, commitOrder)
        ELSE Selected(localAddedModules[Len(localAddedModules)], <<>>)

selectAddedModuleForOpaqueIDIgnoreTargeting(cp, addedModulesForOpaqueID, commitOrder) ==
    LET localAddedModules == SelectSeq(addedModulesForOpaqueID, IsLocal)
    IN  IF Len(localAddedModules) = 0
        THEN selectRemoteAddedModuleForOpaqueIDIgnoreTargeting(cp, addedModulesForOpaqueID, commitOrder)
        ELSE Selected(localAddedModules[1], <<>>)

\* Mutant: targets are not preferred.
selectAddedModuleNoTargeting(cp, addedModulesForOpaqueID, commitOrder) ==
    selectAddedModuleForOpaqueIDIgnoreTargeting(cp, addedModulesForOpaqueID, commitOrder)

selectAddedModuleForOpaqueID(cp, addedModulesForOpaqueID, commitOrder) ==
    LET targetAddedModules == SelectSeq(addedModulesForOpaqueID, IsTarget)
    IN  CASE Len(targetAddedModules) = 0 ->
                selectAddedModuleForOpaqueIDIgnoreTargeting(cp, addedModulesForOpaqueID, commitOrder)
          [] Len(targetAddedModules) = 1 ->
                Selected(targetAddedModules[1], <<>>)
          [] OTHER ->
                selectAddedModuleForOpaqueIDIgnoreTargeting(cp, targetAddedModules, commitOrder)

\* sort.Slice(resultAddedModules, less by OpaqueID), as an insertion sort.
RECURSIVE insertByOpaqueID(_, _)
insertByOpaqueID(a, sorted) ==
    IF sorted = <<>> THEN <<a>>
    ELSE IF StrLess(OpaqueID(a), OpaqueID(Head(sorted)))
         THEN <<a>> \o sorted
         ELSE <<Head(sorted)>> \o insertByOpaqueID(a, Tail(sorted))

\* Mutant: the result is left in map iteration order.
notSortedByOpaqueID(s) == s

RECURSIVE sortByOpaqueID(_)
sortByOpaqueID(s) ==
    IF s = <<>> THEN <<>> ELSE insertByOpaqueID(Head(s), sortByOpaqueID(Tail(s)))

\* The iteration order of the commit map of group id (commitOrders names it only for
\* the groups whose map has two or more keys).
CommitOrderOf(commitOrders, id) ==
    IF id \in DOMAIN commitOrders THEN commitOrders[id] ELSE <<"c1", "c2">>

\* Mutant: the result slice is declared and not made, so that it is nil until the
\* first append.
RECURSIVE selectLoopNilSlice(_, _, _, _, _, _, _)
selectLoopNilSlice(cp, byOpaqueID, opaqueIDOrder, commitOrders, i, resultAddedModules, calls) ==
    IF i > Len(opaqueIDOrder)
    THEN [addedModules |-> sortByOpaqueID(resultAddedModules),
          isNil |-> resultAddedModules = <<>>, err |-> {}, cpCalls |-> calls]
    ELSE
        LET got == selectAddedModuleForOpaqueID(
                       cp, byOpaqueID[opaqueIDOrder[i]],
                       CommitOrderOf(commitOrders, opaqueIDOrder[i]))
        IN  IF got.err # {}
            THEN [addedModules |-> <<>>, isNil |-> TRUE, err |-> got.err,
                  cpCalls |-> calls \o got.cpCalls]
            ELSE selectLoopNilSlice(cp, byOpaqueID, opaqueIDOrder, commitOrders, i + 1,
                                    Append(resultAddedModules, Only(got.addedModule)),
                                    calls \o got.cpCalls)

\* Mutant: a group whose selection failed is left out and the loop goes on.
RECURSIVE selectLoopSkipFailed(_, _, _, _, _, _, _)
selectLoopSkipFailed(cp, byOpaqueID, opaqueIDOrder, commitOrders, i, resultAddedModules, calls) ==
    IF i > Len(opaqueIDOrder)
    THEN [addedModules |-> sortByOpaqueID(resultAddedModules), isNil |-> FALSE, err |-> {},
          cpCalls |-> calls]
    ELSE
        LET got == selectAddedModuleForOpaqueID(
                       cp, byOpaqueID[opaqueIDOrder[i]],
                       CommitOrderOf(commitOrders, opaqueIDOrder[i]))
        IN  selectLoopSkipFailed(
                cp, byOpaqueID, opaqueIDOrder, commitOrders, i + 1,
                IF got.err # {} THEN resultAddedModules
                ELSE Append(resultAddedModules, Only(got.addedModule)),
                calls \o got.cpCalls)

\* The loop of getUniqueSortedAddedModulesByOpaqueID over opaqueIDToAddedModules,
\* in the iteration order opaqueIDOrder.
RECURSIVE selectLoop(_, _, _, _, _, _, _)
selectLoop(cp, byOpaqueID, opaqueIDOrder, commitOrders, i, resultAddedModules, calls) ==
    IF i > Len(opaqueIDOrder)
    THEN [addedModules |-> sortByOpaqueID(resultAddedModules), isNil |-> FALSE, err |-> {},
          cpCalls |-> calls]
    ELSE
        LET got == selectAddedModuleForOpaqueID(
                       cp, byOpaqueID[opaqueIDOrder[i]],
                       CommitOrderOf(commitOrders, opaqueIDOrder[i]))
        IN  IF got.err # {}
            THEN [addedModules |-> <<>>, isNil |-> TRUE, err |-> got.err,
                  cpCalls |-> calls \o got.cpCalls]
            ELSE selectLoop(cp, byOpaqueID, opaqueIDOrder, commitOrders, i + 1,
                            Append(resultAddedModules, Only(got.addedModule)), calls \o got.cpCalls)

\* opaqueIDOrder is the order in which Go iterates opaqueIDToAddedModules, and
\* commitOrders[id] the order in which it iterates the commit map of group id.
getUniqueSortedAddedModulesByOpaqueID(cp, addedModulesIn, opaqueIDOrder, commitOrders) ==
    selectLoop(cp, opaqueIDToAddedModules(addedModulesIn), opaqueIDOrder, commitOrders, 1, <<>>, <<>>)

\* The iteration orders Go may take for the maps built from addedModulesIn.
OpaqueIDOrders(addedModulesIn) == Perms({OpaqueID(addedModulesIn[i]) : i \in DOMAIN addedModulesIn})

\* The commit IDs of the remote addedModules with the given OpaqueID.
RemoteCommitIDs(addedModulesIn, id) ==
    {RemoteCommitID(addedModulesIn[i]) :
        i \in {j \in DOMAIN addedModulesIn :
                  ~IsLocal(addedModulesIn[j]) /\ OpaqueID(addedModulesIn[j]) = id}}

\* An iteration order per group whose commit map has two or more keys; the order of
\* a map with at most one key is the only one there is.
CommitOrders(addedModulesIn) ==
    LET ids == {OpaqueID(addedModulesIn[i]) : i \in DOMAIN addedModulesIn}
        contested == {id \in ids : Cardinality(RemoteCommitIDs(addedModulesIn, id)) > 1}
    IN  [contested -> Perms(CommitIDs)]

(***************************************************************************)
(* ModuleDataProvider as the builder sees it, and addedModule.ToModule.    *)
(***************************************************************************)
ModuleDataProviders == {[impl |-> "ok"], [impl |-> "notfound"]}

\* ModuleDataProviders of another kind: they answer with no error and with no
\* ModuleData, or with two for each ModuleKey.
MiscountingModuleDataProviders == {[impl |-> "none"], [impl |-> "two"]}

\* ModuleDataProviders of another kind: they answer with the ModuleData of another
\* ModuleKey than the one they were given.
MismatchingModuleDataProviders ==
    {[impl |-> "otherName"], [impl |-> "otherCommit"], [impl |-> "otherDigest"]}

\* The digest of every ModuleKey the builder is given.
BuilderKeyDigest == "aa"

\* The key a mismatching provider answers with: the other module of the registry,
\* the other commit, or another digest.
answeredKey(mdp, moduleKey) ==
    IF mdp.impl = "otherName"
    THEN [moduleKey EXCEPT !.moduleFullName.name = IF @ = <<109>> THEN <<110>> ELSE <<109>>]
    ELSE IF mdp.impl = "otherCommit"
    THEN [moduleKey EXCEPT !.commitID = IF @ = "c1" THEN "c2" ELSE "c1"]
    ELSE moduleKey

answeredDigest(mdp) == IF mdp.impl = "otherDigest" THEN "bb" ELSE BuilderKeyDigest

\* A ModuleData is its ModuleKey and the digest of that key.
builderGetModuleDatasForModuleKeys(mdp, moduleKeys) ==
    IF mdp.impl \in {"ok", "otherName", "otherCommit", "otherDigest"}
    THEN [moduleDatas |-> [i \in DOMAIN moduleKeys |->
                              [moduleKey |-> answeredKey(mdp, moduleKeys[i]),
                               digest |-> answeredDigest(mdp)]],
          err |-> {}]
    ELSE IF mdp.impl = "none"
    THEN [moduleDatas |-> <<>>, err |-> {}]
    ELSE IF mdp.impl = "two"
    THEN [moduleDatas |-> [i \in 1..(2 * Len(moduleKeys)) |->
                              [moduleKey |-> moduleKeys[(i + 1) \div 2],
                               digest |-> BuilderKeyDigest]],
          err |-> {}]
    ELSE [moduleDatas |-> <<>>, err |-> {PathError("read", moduleKeys[1], ErrNotExist)}]

\* Returns [module, err, mdpCalls].
ToModule(a, mdp) ==
    IF a.localModule # {}
    THEN [module |-> {[addedModule |-> a.ptr, isLocal |-> TRUE,
                       moduleFullName |-> Only(a.localModule).moduleFullName,
                       commitID |-> Only(a.localModule).commitID,
                       isTarget |-> a.isTarget]},
          err |-> {}, mdpCalls |-> <<>>]
    ELSE
        LET moduleKeys == <<Only(a.remoteModuleKey)>>
            got == builderGetModuleDatasForModuleKeys(mdp, moduleKeys)
        IN  IF got.err # {}
            THEN [module |-> {}, err |-> got.err, mdpCalls |-> <<moduleKeys>>]
            ELSE IF Len(got.moduleDatas) # 1
            THEN [module |-> {}, err |-> {SysError("expected 1 ModuleData")}, mdpCalls |-> <<moduleKeys>>]
            ELSE IF ModuleFullNameString(Only(a.remoteModuleKey).moduleFullName)
                        # ModuleFullNameString(got.moduleDatas[1].moduleKey.moduleFullName)
            THEN [module |-> {}, err |-> {SysError("mismatched ModuleFullName from ModuleDataProvider")},
                  mdpCalls |-> <<moduleKeys>>]
            ELSE [module |-> {[addedModule |-> a.ptr, isLocal |-> FALSE,
                               moduleFullName |-> {got.moduleDatas[1].moduleKey.moduleFullName},
                               commitID |-> {got.moduleDatas[1].moduleKey.commitID},
                               isTarget |-> a.isTarget]},
                  err |-> {}, mdpCalls |-> <<moduleKeys>>]

\* Build's materialization of the resolved addedModules, in order; the first error aborts.
RECURSIVE toModulesLoop(_, _, _, _, _)
toModulesLoop(resolved, mdp, i, modules, calls) ==
    IF i > Len(resolved) THEN [modules |-> modules, err |-> {}, mdpCalls |-> calls]
    ELSE
        LET got == ToModule(resolved[i], mdp)
        IN  IF got.err # {}
            THEN [modules |-> <<>>, err |-> got.err, mdpCalls |-> calls \o got.mdpCalls]
            ELSE toModulesLoop(resolved, mdp, i + 1, Append(modules, Only(got.module)),
                               calls \o got.mdpCalls)

(***************************************************************************)
(* The registry (BSR) as the API providers see it.                         *)
(***************************************************************************)
\* What the registry does with a commit ID: serve it, report it missing, or fail.
CommitStatuses == {"ok", "notfound", "unavailable"}

\* A *connect.Error with the given code.
ConnectError(code) == [kind |-> "connect.Error", code |-> code]

\* connect.CodeOf
CodeOf(err) == IF err.kind = "connect.Error" THEN err.code ELSE "Unknown"

\* The commit IDs in ascending order (slicesext.MapKeysToSortedSlice).
SortedCommitIDs == <<"c1", "c2">>

\* The registry's answer to one RPC that names commitIDs: {} for a response with
\* one entry per commit, or the connect error for the first commit it cannot serve.
RECURSIVE registryAnswer(_, _, _)
registryAnswer(commitStatus, commitIDs, i) ==
    IF i > Len(commitIDs) THEN {}
    ELSE IF commitStatus[commitIDs[i]] = "notfound" THEN {ConnectError("NotFound")}
    ELSE IF commitStatus[commitIDs[i]] = "unavailable" THEN {ConnectError("Unavailable")}
    ELSE registryAnswer(commitStatus, commitIDs, i + 1)

(***************************************************************************)
(* What a provider call does: it returns (result, err), result being nil   *)
(* ({}) or a slice ({slice}), or it panics. reported is the code of the    *)
(* registry failure that ended the call, if one did.                       *)
(***************************************************************************)
Return(result, err, reported) ==
    [kind |-> "return", result |-> result, err |-> err, reported |-> reported]

Panic == [kind |-> "panic", result |-> {}, err |-> {}, reported |-> {}]

\* The code a failed RPC reported.
Reported(answer) == {CodeOf(e) : e \in answer}

\* make([]T, len, cap): len nil elements.
MakeSlice(len) == [i \in 1..len |-> {}]

\* s[index] = v for every (index, v) of indexes and values, in order; {} is the
\* runtime panic of an index that is not below len(s).
RECURSIVE SetIndexes(_, _, _, _)
SetIndexes(slice, indexes, values, i) ==
    IF i > Len(indexes) THEN {slice}
    ELSE IF indexes[i] >= Len(slice) THEN {}
    ELSE SetIndexes([slice EXCEPT ![indexes[i] + 1] = values[i]], indexes, values, i + 1)

\* bufmodule.NewModuleData for the key, as a non-nil ModuleData.
NewModuleData(moduleKey) == {[moduleKey |-> moduleKey]}

HasDuplicates(s) == \E i, j \in DOMAIN s : i < j /\ s[i] = s[j]

FullNameStrings(moduleKeys) ==
    [i \in DOMAIN moduleKeys |-> ModuleFullNameString(moduleKeys[i].moduleFullName)]

(***************************************************************************)
(* bufpkg bufmoduleapi: the ModuleDataProvider that groups keys by         *)
(* registry.                                                               *)
(***************************************************************************)
\* getKeyToIndexedValues, for one key: the keys of the registry with their
\* (0-based) index in moduleKeys, in order.
indexedModuleKeys(moduleKeys, reg) ==
    LET indexes == SelectSeq([i \in DOMAIN moduleKeys |-> i],
                             LAMBDA i : moduleKeys[i].moduleFullName.registry = reg)
    IN  [j \in DOMAIN indexes |-> [Value |-> moduleKeys[indexes[j]], Index |-> indexes[j] - 1]]

\* NotFound becomes a PathError wrapping fs.ErrNotExist; any other error is returned as is.
getCommitIDToProtoContentForRegistryAndModuleKeys(commitStatus, moduleKeys) ==
    LET commitIDs == SelectSeq(SortedCommitIDs,
                               LAMBDA c : \E i \in DOMAIN moduleKeys : moduleKeys[i].commitID = c)
        answer == registryAnswer(commitStatus, commitIDs, 1)
    IN  IF answer # {}
        THEN IF CodeOf(Only(answer)) = "NotFound"
             THEN Return({}, {PathError("read", Only(answer), ErrNotExist)}, Reported(answer))
             ELSE Return({}, answer, Reported(answer))
        ELSE Return({[i \in DOMAIN moduleKeys |-> NewModuleData(moduleKeys[i])]}, {}, {})

\* The graph of the keys is taken to be served; WalkNodes visits every key, and
\* stores its ModuleData at the key's index in a slice made with length 0.
getModuleDatasForRegistryAndModuleKeys(commitStatus, moduleKeys) ==
    IF HasDuplicates([i \in DOMAIN moduleKeys |-> moduleKeys[i].commitID])
    THEN Return({}, {NewError("duplicate key")}, {})
    ELSE
        LET got == getCommitIDToProtoContentForRegistryAndModuleKeys(commitStatus, moduleKeys)
        IN  IF got.err # {} THEN got
            ELSE
                LET moduleDatas == SetIndexes(MakeSlice(0),
                                              [i \in DOMAIN moduleKeys |-> i - 1],
                                              Only(got.result), 1)
                IN  IF moduleDatas = {} THEN Panic ELSE Return(moduleDatas, {}, {})

\* The loop over registryToIndexedModuleKeys, in the iteration order registryOrder.
RECURSIVE apiRegistryLoop(_, _, _, _, _)
apiRegistryLoop(commitStatus, moduleKeys, registryOrder, r, moduleDatas) ==
    IF r > Len(registryOrder) THEN Return({moduleDatas}, {}, {})
    ELSE
        LET indexed == indexedModuleKeys(moduleKeys, registryOrder[r])
            got == getModuleDatasForRegistryAndModuleKeys(
                       commitStatus, [j \in DOMAIN indexed |-> indexed[j].Value])
        IN  IF got.kind = "panic" THEN Panic
            ELSE IF got.err # {} THEN Return({}, got.err, got.reported)
            ELSE
                LET set == SetIndexes(moduleDatas, [j \in DOMAIN indexed |-> indexed[j].Index],
                                      Only(got.result), 1)
                IN  IF set = {} THEN Panic
                    ELSE apiRegistryLoop(commitStatus, moduleKeys, registryOrder, r + 1, Only(set))

apiGetModuleDatasForModuleKeys(commitStatus, moduleKeys, registryOrder) ==
    IF HasDuplicates(FullNameStrings(moduleKeys))
    THEN Return({}, {NewError("duplicate module name")}, {})
    ELSE apiRegistryLoop(commitStatus, moduleKeys, registryOrder, 1, MakeSlice(0))

\* An RPC sent to a registry host: its items are the values of the request.
Request(rpc, reg, items) == [rpc |-> rpc, registry |-> reg, items |-> items]

\* The Download requests of the loop over the registries: one per registry whose
\* keys have distinct commit IDs, naming its commit IDs in ascending order, until
\* the call ends.
RECURSIVE apiRequestsLoop(_, _, _, _, _, _)
apiRequestsLoop(commitStatus, moduleKeys, registryOrder, r, moduleDatas, sent) ==
    IF r > Len(registryOrder) THEN sent
    ELSE
        LET indexed == indexedModuleKeys(moduleKeys, registryOrder[r])
            registryKeys == [j \in DOMAIN indexed |-> indexed[j].Value]
            commitIDs == SelectSeq(SortedCommitIDs,
                                   LAMBDA c : \E j \in DOMAIN registryKeys :
                                                  registryKeys[j].commitID = c)
            got == getModuleDatasForRegistryAndModuleKeys(commitStatus, registryKeys)
            now == IF HasDuplicates([j \in DOMAIN registryKeys |-> registryKeys[j].commitID])
                   THEN sent
                   ELSE Append(sent, Request("Download", registryOrder[r], commitIDs))
        IN  IF got.kind = "panic" \/ got.err # {} THEN now
            ELSE
                LET set == SetIndexes(moduleDatas, [j \in DOMAIN indexed |-> indexed[j].Index],
                                      Only(got.result), 1)
                IN  IF set = {} THEN now
                    ELSE apiRequestsLoop(commitStatus, moduleKeys, registryOrder, r + 1,
                                         Only(set), now)

\* The RPCs of apiGetModuleDatasForModuleKeys.
apiRequests(commitStatus, moduleKeys, registryOrder) ==
    IF HasDuplicates(FullNameStrings(moduleKeys)) THEN <<>>
    ELSE apiRequestsLoop(commitStatus, moduleKeys, registryOrder, 1, MakeSlice(0), <<>>)

\* The iteration orders Go may take for registryToIndexedModuleKeys.
RegistryOrders(moduleKeys) ==
    Perms({moduleKeys[i].moduleFullName.registry : i \in DOMAIN moduleKeys})

\* getProtoCommitsForRegistryAndCommitIDs: one GetCommits RPC for the commit IDs.
getProtoCommitsForRegistryAndCommitIDs(commitStatus, commitIDs) ==
    LET answer == registryAnswer(commitStatus, commitIDs, 1)
    IN  IF answer # {}
        THEN IF CodeOf(Only(answer)) = "NotFound"
             THEN Return({}, {PathError("read", Only(answer), ErrNotExist)}, Reported(answer))
             ELSE Return({}, answer, Reported(answer))
        ELSE Return({[i \in DOMAIN commitIDs |-> {[id |-> commitIDs[i]]}]}, {}, {})

(***************************************************************************)
(* bufnew bufmoduleapi: the ModuleDataProvider that resolves key by key.   *)
(***************************************************************************)
\* One GetCommitNodes RPC; its error is returned as it is.
getModuleDataForModuleKey(commitStatus, moduleKey) ==
    LET answer == registryAnswer(commitStatus, <<moduleKey.commitID>>, 1)
    IN  IF answer # {}
        THEN Return({}, answer, Reported(answer))
        ELSE Return(NewModuleData(moduleKey), {}, {})

RECURSIVE perKeyLoop(_, _, _, _)
perKeyLoop(commitStatus, moduleKeys, i, moduleDatas) ==
    IF i > Len(moduleKeys) THEN Return({moduleDatas}, {}, {})
    ELSE
        LET got == getModuleDataForModuleKey(commitStatus, moduleKeys[i])
        IN  IF got.err # {} THEN Return({}, got.err, got.reported)
            ELSE
                LET set == SetIndexes(moduleDatas, <<i - 1>>, <<got.result>>, 1)
                IN  IF set = {} THEN Panic
                    ELSE perKeyLoop(commitStatus, moduleKeys, i + 1, Only(set))

\* The RPCs of perKeyLoop: one GetCommitNodes request for each key, naming its
\* commit ID, until a request fails.
RECURSIVE perKeyRequests(_, _, _, _)
perKeyRequests(commitStatus, moduleKeys, i, sent) ==
    IF i > Len(moduleKeys) THEN sent
    ELSE
        LET now == Append(sent, Request("GetCommitNodes", moduleKeys[i].moduleFullName.registry,
                                        <<moduleKeys[i].commitID>>))
        IN  IF getModuleDataForModuleKey(commitStatus, moduleKeys[i]).err # {} THEN now
            ELSE perKeyRequests(commitStatus, moduleKeys, i + 1, now)

\* The digests of the file nodes the registry holds for a commit.
FileNodeDigests == [c \in CommitIDs |-> IF c = "c1" THEN <<"f1", "f2", "f3">> ELSE <<"f1">>]

\* The commits the registry names as the dependencies of a commit.
ProtoCommitDeps == [c \in CommitIDs |-> IF c = "c1" THEN <<"c2">> ELSE <<>>]

\* The largest number of blob digests one GetBlobs request carries.
MaxBatchSize == 250

\* slicesextended.ToChunks: the slice cut into chunks of chunkSize elements, the
\* last one holding what is left.
RECURSIVE ToChunks(_, _)
ToChunks(slice, chunkSize) ==
    IF slice = <<>> THEN <<>>
    ELSE IF Len(slice) <= chunkSize THEN <<slice>>
    ELSE <<SubSeq(slice, 1, chunkSize)>> \o ToChunks(SubSeq(slice, chunkSize + 1, Len(slice)), chunkSize)

\* getBucketForProtoFileNodes, run when the bucket of a ModuleData is read: one
\* GetBlobs request for each chunk of the digests of the file nodes.
getBucketForProtoFileNodes(moduleKey) ==
    LET protoDigestChunks == ToChunks(FileNodeDigests[moduleKey.commitID], MaxBatchSize)
    IN  [j \in DOMAIN protoDigestChunks |->
            Request("GetBlobs", moduleKey.moduleFullName.registry, protoDigestChunks[j])]

\* getModuleKeysForProtoCommits, run when the dependency list of a ModuleData is
\* read: for each dependency, a GetModules and a GetOwners request.
RECURSIVE getModuleKeysForProtoCommits(_, _, _)
getModuleKeysForProtoCommits(reg, protoCommits, i) ==
    IF i > Len(protoCommits) THEN <<>>
    ELSE <<Request("GetModules", reg, <<protoCommits[i]>>),
           Request("GetOwners", reg, <<protoCommits[i]>>)>>
         \o getModuleKeysForProtoCommits(reg, protoCommits, i + 1)

\* Mutant: on a failure, the ModuleDatas resolved so far are returned with the error.
perKeyPartialResults(commitStatus, moduleKeys) ==
    LET failing == {i \in DOMAIN moduleKeys : commitStatus[moduleKeys[i].commitID] # "ok"}
        first == CHOOSE i \in failing : \A j \in failing : i <= j
    IN  IF failing = {}
        THEN Return({[i \in DOMAIN moduleKeys |-> NewModuleData(moduleKeys[i])]}, {}, {})
        ELSE Return({[i \in DOMAIN moduleKeys |->
                        IF i < first THEN NewModuleData(moduleKeys[i]) ELSE {}]},
                    getModuleDataForModuleKey(commitStatus, moduleKeys[first]).err,
                    getModuleDataForModuleKey(commitStatus, moduleKeys[first]).reported)

perKeyGetModuleDatasForModuleKeys(commitStatus, moduleKeys) ==
    perKeyLoop(commitStatus, moduleKeys, 1, MakeSlice(Len(moduleKeys)))

(***************************************************************************)
(* bufmoduletesting: the OmniProvider as a ModuleDataProvider.             *)
(***************************************************************************)
\* sort.Slice(moduleDatas, less by ModuleFullName string), as an insertion sort.
RECURSIVE insertByFullName(_, _)
insertByFullName(moduleData, sorted) ==
    IF sorted = <<>> THEN <<moduleData>>
    ELSE IF StrLess(ModuleFullNameString(Only(moduleData).moduleKey.moduleFullName),
                    ModuleFullNameString(Only(Head(sorted)).moduleKey.moduleFullName))
         THEN <<moduleData>> \o sorted
         ELSE <<Head(sorted)>> \o insertByFullName(moduleData, Tail(sorted))

RECURSIVE sortByFullName(_)
sortByFullName(s) ==
    IF s = <<>> THEN <<>> ELSE insertByFullName(Head(s), sortByFullName(Tail(s)))

\* populateModuleDatasForModuleKeyRec for each key, without dependencies: a module
\* is looked up by its full name; moduleDatas holds the values of the map.
RECURSIVE omniPopulateLoop(_, _, _, _)
omniPopulateLoop(moduleFullNames, moduleKeys, i, moduleDatas) ==
    IF i > Len(moduleKeys) THEN Return({sortByFullName(moduleDatas)}, {}, {})
    ELSE IF moduleKeys[i].moduleFullName \notin moduleFullNames
         THEN Return({}, {PathError("read", moduleKeys[i], ErrNotExist)}, {"NotFound"})
         ELSE omniPopulateLoop(moduleFullNames, moduleKeys, i + 1,
                               Append(moduleDatas, NewModuleData(moduleKeys[i])))

omniGetModuleDatasForModuleKeys(moduleFullNames, moduleKeys) ==
    IF HasDuplicates(FullNameStrings(moduleKeys))
    THEN Return({}, {NewError("module names seen more than once")}, {})
    ELSE omniPopulateLoop(moduleFullNames, moduleKeys, 1, <<>>)

\* The OmniProviders: the module names and the commits (created at mockTime) they know.
OmniProviders ==
    {[moduleFullNames |-> ModuleFullNames, commitIDToCreateTime |-> [c \in CommitIDs |-> 1]],
     [moduleFullNames |-> {n \in ModuleFullNames : n.name = <<109>>},
      commitIDToCreateTime |-> [c \in {"c1"} |-> 1]]}

\* The key lists of a provider call.
KeyLists == UNION {[1..n -> ModuleKeys] : n \in 0..MaxKeys}

\* The state of the providers while another part of the program is studied.
ProviderIdle ==
    /\ registry = [c \in CommitIDs |-> "ok"]
    /\ omni = [moduleFullNames |-> ModuleFullNames, commitIDToCreateTime |-> [c \in CommitIDs |-> 1]]
    /\ providerCall = {}
    /\ requests = <<>>
    /\ accessed = {}

(***************************************************************************)
(* Module and lazyModule. A call that returns (value, error) is a record   *)
(* [value, err], each nil ({}) or set ({v}).                               *)
(***************************************************************************)
DigestTypes == {"b4", "b5"}

DigestValues == {"aa", "bb"}

Digests == [type : DigestTypes, value : DigestValues]

\* Digest.String: "type:hex".
DigestString(digest) == <<digest.type, ":", digest.value>>

\* bufcas.DigestEqual
DigestEqual(a, b) == a.type = b.type /\ a.value = b.value

Value(v) == [value |-> {v}, err |-> {}]

Error(err) == [value |-> {}, err |-> {err}]

\* What a Digest(ctx) call may return.
DigestResults == {Value(d) : d \in Digests} \cup {Error(NewError(<<"digest unavailable">>))}

Paths == {"a.proto", "b.proto"}

\* A loaded Module: what its Digest returns, its files ("b.proto" is in no module),
\* its dependency list.
Modules == [digest : DigestResults, files : SUBSET {"a.proto"}, depModules : {<<>>, <<"dep">>}]

\* A lazyModule: the Digest of the ModuleInfo it was requested with, and what the
\* getModuleFunc it was given yields when it runs.
LazyModules ==
    [moduleInfo : [digest : DigestResults],
     getModuleFunc : {Value(m) : m \in Modules} \cup {Error(NewError(<<"load failed">>))}]

\* The read operations of the loaded module.
moduleGetFile(module, path) ==
    IF path \in module.files
    THEN Value([file |-> path])
    ELSE Error(PathError("read", path, ErrNotExist))

moduleStatFileInfo(module, path) ==
    IF path \in module.files
    THEN Value([fileInfo |-> path])
    ELSE Error(PathError("stat", path, ErrNotExist))

\* The FileInfos handed to the callback.
moduleWalkFileInfos(module) == Value([fileInfos |-> module.files])

moduleDepModules(module) == Value([depModules |-> module.depModules])

\* Mutant: the loaded module is returned without its digest being compared.
getModuleUnverified(m, got) == got

\* lazyModule.getModule; got is what m.getModuleFunc() returned.
getModule(m, got) ==
    IF got.err # {} THEN Error(Only(got.err))
    ELSE
        LET expectedDigest == m.moduleInfo.digest
            actualDigest == Only(got.value).digest
        IN  IF expectedDigest.err # {} THEN Error(Only(expectedDigest.err))
            ELSE IF actualDigest.err # {} THEN Error(Only(actualDigest.err))
            ELSE IF ~DigestEqual(Only(expectedDigest.value), Only(actualDigest.value))
            THEN Error(NewError(<<"expected digest ">> \o DigestString(Only(expectedDigest.value))
                                \o <<", got ">> \o DigestString(Only(actualDigest.value))))
            ELSE Value(Only(got.value))

\* The state of the lazy module while another part of the program is studied.
LazyIdle ==
    /\ lazyModule = [moduleInfo |-> [digest |-> Error(NewError(<<"digest unavailable">>))],
                     getModuleFunc |-> Error(NewError(<<"load failed">>))]
    /\ lazyOnce = {}
    /\ reads = 0
    /\ readResult = {}
    /\ moduleFetches = 0
    /\ moduleSeen = {}

(***************************************************************************)
(* ModuleKey (module_key.go): a known digest, or a digest that is fetched  *)
(* on the first Digest() call.                                             *)
(***************************************************************************)
\* ctx.Err() of a cancelled context, as a fetch that was aborted returns it.
ContextCanceled == [kind |-> "context.Canceled"]

\* Mutant: the fields are stored without a look at them.
newModuleKeyUnchecked(moduleFullName, commitID, digest, getDigest) ==
    Value([moduleFullName |-> moduleFullName, commitID |-> commitID,
           digest |-> digest, getDigest |-> getDigest])

\* newModuleKey; sync.OnceValues(getDigest) is the digestOnce cell of the state.
newModuleKey(moduleFullName, commitID, digest, getDigest) ==
    IF moduleFullName = {}
    THEN Error(NewError(<<"nil ModuleFullName when constructing ModuleKey">>))
    ELSE IF commitID = ""
    THEN Error(NewError(<<"empty commitID when constructing ModuleKey">>))
    ELSE IF digest # {} /\ getDigest # {}
    THEN Error(NewError(<<"cannot set both digest and getDigest when constructing ModuleKey">>))
    ELSE IF digest = {} /\ getDigest = {}
    THEN Error(NewError(<<"nil digest and getDigest when constructing ModuleKey">>))
    ELSE Value([moduleFullName |-> moduleFullName, commitID |-> commitID,
                digest |-> digest, getDigest |-> getDigest])

newModuleKeyForKnownDigest(moduleFullName, commitID, digest) ==
    newModuleKey(moduleFullName, commitID, digest, {})

newModuleKeyForLazyDigest(moduleFullName, commitID, getDigest) ==
    newModuleKey(moduleFullName, commitID, {}, getDigest)

\* The arguments the constructors are called with: nil and the empty string included.
KeyFullNames == {{}, {[registry |-> <<98>>, owner |-> <<111>>, name |-> <<109>>]}}

KeyCommitIDs == {"", "c1"}

KeyDigests == {{}} \cup {{digest} : digest \in {d \in Digests : d.type = "b5"}}

\* A getDigest function is what it yields when it runs to its end (nil: {}).
GetDigestFuncs == {{}} \cup {{outcome} : outcome \in DigestResults}

\* Mutant: every call runs f.
onceValuesEveryCall(once, f) == f

\* sync.OnceValues(f): the first call runs f, every call returns what that run returned.
onceValues(once, f) == IF once = {} THEN f ELSE Only(once)

\* The runs of f that a call of sync.OnceValues(f) makes.
onceRuns(once) == IF once = {} THEN 1 ELSE 0

\* What a run of a fetch function gives: the context error if it is aborted by
\* cancellation, else its outcome.
fetch(aborted, outcome) == IF aborted THEN Error(ContextCanceled) ELSE outcome

\* moduleKey.Digest; fetched is what a run of the getDigest given at construction gives.
moduleKeyDigest(key, once, fetched) ==
    IF key.digest # {} THEN Value(Only(key.digest)) ELSE onceValues(once, fetched)

\* The state of the ModuleKey while another part of the program is studied.
KeyIdle ==
    /\ keyResult = {}
    /\ digestOnce = {}
    /\ digestCalls = 0
    /\ digestFetches = 0
    /\ digestSeen = {}
    /\ digestResult = {}

(***************************************************************************)
(* The dependency relation of a ModuleSet (bufmodule.ModuleSetToDAG gives  *)
(* it as a graph keyed by OpaqueID) and its validation in Build.           *)
(***************************************************************************)
\* The OpaqueIDs of the modules given to Build.
GraphModules == {"A", "B", "C"}

\* The direct dependencies of a module: the Outbound edges of its node.
DepsOf(edges, module) == {e[2] : e \in {x \in edges : x[1] = module}}

\* A walk over the dependencies from the modules of frontier, each module visited once.
RECURSIVE walkDeps(_, _, _)
walkDeps(edges, frontier, visited) ==
    IF frontier \subseteq visited THEN visited
    ELSE walkDeps(edges, UNION {DepsOf(edges, module) : module \in frontier \ visited},
                  visited \cup frontier)

\* Every module that a module depends on, directly or through other modules.
transitiveDeps(edges, module) == walkDeps(edges, DepsOf(edges, module), {})

\* Mutant: only a module that names itself as a dependency is rejected.
validateNoSelfDependency(edges) ==
    IF \E module \in GraphModules : module \in DepsOf(edges, module)
    THEN Error(NewError(<<"cycle detected">>))
    ELSE Value([modules |-> GraphModules, deps |-> edges])

\* Build's validation: a module that is among its own transitive dependencies is a
\* cycle, and a cycle is an error; else the ModuleSet with these dependencies.
validateAcyclic(edges) ==
    IF \E module \in GraphModules : module \in transitiveDeps(edges, module)
    THEN Error(NewError(<<"cycle detected">>))
    ELSE Value([modules |-> GraphModules, deps |-> edges])

\* The state of the dependency graph while another part of the program is studied.
GraphIdle ==
    /\ depEdges = {}
    /\ graphBuild = {}

(***************************************************************************)
(* ModuleDigestB5 (module.go): the digest of a Module of its files and its *)
(* dependencies.                                                           *)
(***************************************************************************)
\* The digests of files and of dependencies, as numbers in the order of their strings.
B5Values == {1, 2}

\* What moduleReadBucketDigestB5 and depModule.Digest may return.
B5DigestResults ==
    {Value(d) : d \in B5Values} \cup {Error(NewError(<<"digest unavailable">>)), Error(ErrNotExist)}

B5Names == {"x", "y"}

\* The dependencies of a Module, in DepModules order: none, one or two.
B5DepModules == [name : B5Names, digest : B5DigestResults]

B5DepModuleLists ==
    {<<>>} \cup {<<d>> : d \in B5DepModules} \cup {<<d, e>> : d \in B5DepModules, e \in B5DepModules}

\* The Modules given to ModuleDigestB5; depModulesErr is the error of DepModules(ctx).
B5Modules ==
    [name : {"x"}, fileDigest : B5DigestResults, depModules : B5DepModuleLists,
     depModulesErr : {{}, {NewError(<<"deps unavailable">>)}}]

RECURSIVE insertDigest(_, _)
insertDigest(d, sorted) ==
    IF sorted = <<>> THEN <<d>>
    ELSE IF d < Head(sorted) THEN <<d>> \o sorted
         ELSE <<Head(sorted)>> \o insertDigest(d, Tail(sorted))

RECURSIVE sortDigests(_)
sortDigests(digests) ==
    IF digests = <<>> THEN <<>> ELSE insertDigest(Head(digests), sortDigests(Tail(digests)))

\* bufcas.NewDigestForDigests: the digests are sorted and digested as content; the
\* content stands for its hash.
NewDigestForDigests(digests) == Value([type |-> "b5", value |-> sortDigests(digests)])

\* Mutant: the name of each dependency goes into the digested content.
RECURSIVE depDigestsWithNames(_, _, _)
depDigestsWithNames(depModules, i, digests) ==
    IF i > Len(depModules) THEN NewDigestForDigests(digests)
    ELSE IF depModules[i].digest.err # {} THEN Error(Only(depModules[i].digest.err))
    ELSE depDigestsWithNames(
             depModules, i + 1,
             Append(digests, Only(depModules[i].digest.value)
                             + (IF depModules[i].name = "x" THEN 0 ELSE 10)))

\* The loop of ModuleDigestB5 over depModules, then NewDigestForDigests.
RECURSIVE depDigestsLoop(_, _, _)
depDigestsLoop(depModules, i, digests) ==
    IF i > Len(depModules) THEN NewDigestForDigests(digests)
    ELSE IF depModules[i].digest.err # {} THEN Error(Only(depModules[i].digest.err))
    ELSE depDigestsLoop(depModules, i + 1, Append(digests, Only(depModules[i].digest.value)))

ModuleDigestB5(module) ==
    IF module.fileDigest.err # {} THEN Error(Only(module.fileDigest.err))
    ELSE IF module.depModulesErr # {} THEN Error(Only(module.depModulesErr))
    ELSE depDigestsLoop(module.depModules, 1, <<Only(module.fileDigest.value)>>)

\* The state of the digested Module while another part of the program is studied.
B5Idle ==
    /\ b5Module = [name |-> "x", fileDigest |-> Error(ErrNotExist), depModules |-> <<>>,
                   depModulesErr |-> {}]
    /\ b5First = {}
    /\ b5Last = {}
    /\ b5Changes = 0

\* No InputConfig constructor has been called.
InputIdle ==
    /\ inputCall = {}
    /\ inputBack = {}

\* The sync handler's module names.
SyncModuleNames == {"buf.build/o/a", "buf.build/o/b"}

\* No lookup has been made, and the registry has no repository.
LookupIdle ==
    /\ bsrRepositories = [name \in SyncModuleNames |-> {}]
    /\ bsrPages = <<>>
    /\ moduleFullNameToRepositoryIDCache = [name \in SyncModuleNames |-> {}]
    /\ moduleFullNameToDefaultBranchCache = [name \in SyncModuleNames |-> {}]
    /\ releaseLookups = [name \in SyncModuleNames |-> 0]
    /\ lookupReturned = {}

\* A slice: the backing array it points into, as long as its capacity, and its
\* length.
Slice(array, len) == [array |-> array, len |-> len]

\* newFunctionOptions, and withPathsForBucketExtender not called.
PathsIdle ==
    /\ functionOptions = [targetPaths |-> Slice(<<>>, 0), targetExcludePaths |-> Slice(<<>>, 0)]
    /\ pathsCall = {}

\* SyncModuleBranch has not been called.
SyncIdle ==
    /\ createWithVisibility = {}
    /\ commitsToSync = <<>>
    /\ syncPos = 1
    /\ syncPc = "idle"
    /\ syncPoint = {}
    /\ syncCalls = <<>>
    /\ syncStderr = <<>>
    /\ syncReturned = {}

\* The parts added after the digest study, while another part is studied.
TailIdle ==
    /\ InputIdle
    /\ SyncIdle
    /\ LookupIdle
    /\ PathsIdle

(***************************************************************************)
(* The per-ModuleSet cache (bufnew/bufmodule/cache.go): file path to       *)
(* owning Module and file path to imports, filled under one RWMutex.       *)
(***************************************************************************)
\* The OpaqueIDs of the modules of a ModuleSet: "m" and "n".
CacheOpaqueIDs == <<(<<109>>), (<<110>>)>>

\* The ModuleSets the cache is studied with: Modules() is sorted by OpaqueID, and each
\* module holds some of the paths, so that a path has no, one or two owners.
ModuleSets ==
    {<<[opaqueID |-> CacheOpaqueIDs[1], files |-> f1],
       [opaqueID |-> CacheOpaqueIDs[2], files |-> f2]>> :
        f1 \in {{}, {"a.proto"}, {"a.proto", "b.proto"}}, f2 \in {{"a.proto"}, {"b.proto"}}}

\* ModuleSet.GetModuleForOpaqueID
GetModuleForOpaqueID(ms, opaqueID) ==
    ms[CHOOSE i \in DOMAIN ms : ms[i].opaqueID = opaqueID]

\* stringutil.MapToSortedSlice: the keys of the map, ascending.
RECURSIVE MapToSortedSlice(_)
MapToSortedSlice(keys) ==
    IF keys = {} THEN <<>>
    ELSE LET least == CHOOSE k \in keys : \A other \in keys \ {k} : StrLess(k, other)
         IN  <<least>> \o MapToSortedSlice(keys \ {least})

\* fmt.Errorf("multiple Modules contained file %q: %v", filePath, opaqueIDs)
MultipleModulesError(filePath, opaqueIDs) ==
    [kind |-> "errors.errorString",
     msg |-> <<"multiple Modules contained file ", filePath>>,
     opaqueIDs |-> opaqueIDs]

\* Mutant: with several owners, the first module that contains the file is returned.
getFirstModuleForFilePath(ms, filePath) ==
    LET matching == {i \in DOMAIN ms : moduleStatFileInfo(ms[i], filePath).err = {}}
    IN  IF matching = {}
        THEN Error(NewError(<<"no Module contains file ", filePath>>))
        ELSE Value(ms[CHOOSE i \in matching : \A j \in matching : i <= j])

\* cache.getModuleForFilePathUncached
getModuleForFilePathUncached(ms, filePath) ==
    LET matchingOpaqueIDs ==
            {ms[i].opaqueID :
                i \in {j \in DOMAIN ms : moduleStatFileInfo(ms[j], filePath).err = {}}}
    IN  CASE Cardinality(matchingOpaqueIDs) = 0 ->
                Error(NewError(<<"no Module contains file ", filePath>>))
          [] Cardinality(matchingOpaqueIDs) = 1 ->
                Value(GetModuleForOpaqueID(ms, Only(matchingOpaqueIDs)))
          [] OTHER ->
                Error(MultipleModulesError(filePath, MapToSortedSlice(matchingOpaqueIDs)))

\* What each file imports, as imports.ScanForImports reads it from the file.
FileImports == [path \in Paths |-> IF path = "a.proto" THEN {"b.proto"} ELSE {}]

ScanForImports(file) == Value(FileImports[file.file])

\* internal.GetOrAddToCache: the cached tuple if the key is present, else the tuple
\* that getUncached gave, stored under the key. ran counts the runs of getUncached.
GetOrAddToCache(cacheMap, key, uncached) ==
    IF key \in DOMAIN cacheMap
    THEN [tuple |-> cacheMap[key], cache |-> cacheMap, ran |-> 0]
    ELSE [tuple |-> uncached, cache |-> (key :> uncached) @@ cacheMap, ran |-> 1]

\* Mutant: no look at the map before computing.
GetOrAddToCacheNoRecheck(cacheMap, key, uncached) ==
    [tuple |-> uncached, cache |-> (key :> uncached) @@ cacheMap, ran |-> 1]

\* Mutant: the module scan is run for every imports computation, whatever
\* filePathToModule holds.
getImportsRescanModule(ms, toModule, filePath) ==
    LET got == GetOrAddToCacheNoRecheck(toModule, filePath,
                                        getModuleForFilePathUncached(ms, filePath))
        module == got.tuple
        file == moduleGetFile(Only(module.value), filePath)
        imports == ScanForImports(Only(file.value))
    IN  [tuple |-> IF module.err # {} THEN Error(Only(module.err))
                   ELSE IF file.err # {} THEN Error(Only(file.err))
                   ELSE IF imports.err # {} THEN Error(Only(imports.err))
                   ELSE Value(Only(imports.value)),
         filePathToModule |-> got.cache,
         ran |-> got.ran,
         locks |-> 0]

\* Mutant: the imports computation leaves in filePathToModule the entry of its own
\* path only.
getImportsForgetOtherPaths(ms, toModule, filePath) ==
    LET got == GetOrAddToCache(toModule, filePath, getModuleForFilePathUncached(ms, filePath))
        module == got.tuple
        file == moduleGetFile(Only(module.value), filePath)
        imports == ScanForImports(Only(file.value))
    IN  [tuple |-> IF module.err # {} THEN Error(Only(module.err))
                   ELSE IF file.err # {} THEN Error(Only(file.err))
                   ELSE IF imports.err # {} THEN Error(Only(imports.err))
                   ELSE Value(Only(imports.value)),
         filePathToModule |-> (filePath :> got.tuple),
         ran |-> got.ran,
         locks |-> 0]

\* Mutant: the owning module is looked up through cache.GetModuleForFilePath, which
\* takes the lock of the cache.
getImportsThroughLockingLookup(ms, toModule, filePath) ==
    LET got == GetOrAddToCache(toModule, filePath, getModuleForFilePathUncached(ms, filePath))
        module == got.tuple
        file == moduleGetFile(Only(module.value), filePath)
        imports == ScanForImports(Only(file.value))
    IN  [tuple |-> IF module.err # {} THEN Error(Only(module.err))
                   ELSE IF file.err # {} THEN Error(Only(file.err))
                   ELSE IF imports.err # {} THEN Error(Only(imports.err))
                   ELSE Value(Only(imports.value)),
         filePathToModule |-> got.cache,
         ran |-> got.ran,
         locks |-> 1]

\* cache.getImportsForFilePathUncached: the imports tuple, the filePathToModule map
\* after the inner GetOrAddToCache, whether the module scan ran, and how often the
\* computation takes the lock of the cache (internal.GetOrAddToCache takes none).
getImportsForFilePathUncached(ms, toModule, filePath) ==
    LET got == GetOrAddToCache(toModule, filePath, getModuleForFilePathUncached(ms, filePath))
        module == got.tuple
        file == moduleGetFile(Only(module.value), filePath)
        imports == ScanForImports(Only(file.value))
    IN  [tuple |-> IF module.err # {} THEN Error(Only(module.err))
                   ELSE IF file.err # {} THEN Error(Only(file.err))
                   ELSE IF imports.err # {} THEN Error(Only(imports.err))
                   ELSE Value(Only(imports.value)),
         filePathToModule |-> got.cache,
         ran |-> got.ran,
         locks |-> 0]

\* A caller outside any cache call.
IdleCaller == [pc |-> "idle"]

\* The state of the cache while another part of the program is studied.
CacheIdle ==
    /\ moduleSet = <<>>
    /\ setModuleSetCalled = FALSE
    /\ setModuleSetErrs = <<>>
    /\ filePathToModule = <<>>
    /\ filePathToImports = <<>>
    /\ lock = {}
    /\ callers = <<>>
    /\ moduleScans = <<>>
    /\ importScans = <<>>
    /\ cacheCalls = 0
    /\ returned = {}

(***************************************************************************)
(* The module set builder: Add*, then Build.                               *)
(***************************************************************************)
BuilderInit ==
    /\ addedModules = <<>>
    /\ commitProvider \in CommitProviders
    /\ moduleDataProvider = [impl |-> "ok"]
    /\ buildResult = {}
    /\ cpCalls = <<>>
    /\ mdpCalls = <<>>
    /\ ProviderIdle
    /\ LazyIdle
    /\ CacheIdle
    /\ KeyIdle
    /\ GraphIdle
    /\ B5Idle
    /\ TailIdle

AddLocalModule(localModule, isTarget) ==
    /\ buildResult = {}
    /\ Len(addedModules) < MaxAdded
    /\ addedModules' = Append(addedModules,
                              newLocalAddedModule(Len(addedModules) + 1, localModule, isTarget))
    /\ UNCHANGED <<commitProvider, moduleDataProvider, buildResult, cpCalls, mdpCalls>>
    /\ UNCHANGED <<providerVars, lazyVars, cacheVars, keyVars, graphVars, b5Vars, tailVars>>

AddRemoteModule(remoteModuleKey, isTarget) ==
    /\ buildResult = {}
    /\ Len(addedModules) < MaxAdded
    /\ addedModules' = Append(addedModules,
                              newRemoteAddedModule(Len(addedModules) + 1, remoteModuleKey, isTarget))
    /\ UNCHANGED <<commitProvider, moduleDataProvider, buildResult, cpCalls, mdpCalls>>
    /\ UNCHANGED <<providerVars, lazyVars, cacheVars, keyVars, graphVars, b5Vars, tailVars>>

\* What one Build does, for given iteration orders of its maps:
\* [result, cpCalls, mdpCalls].
BuildOutcome(opaqueIDOrder, commitOrders) ==
    LET resolved == getUniqueSortedAddedModulesByOpaqueID(
                        commitProvider, addedModules, opaqueIDOrder, commitOrders)
    IN  IF resolved.err # {}
        THEN [result |-> [resolved |-> <<>>, resolvedIsNil |-> resolved.isNil,
                          resolveErr |-> resolved.err, modules |-> <<>>,
                          err |-> resolved.err],
              cpCalls |-> resolved.cpCalls, mdpCalls |-> <<>>]
        ELSE
            LET built == toModulesLoop(resolved.addedModules, moduleDataProvider, 1, <<>>, <<>>)
            IN  [result |-> [resolved |-> resolved.addedModules,
                             resolvedIsNil |-> resolved.isNil, resolveErr |-> {},
                             modules |-> built.modules, err |-> built.err],
                 cpCalls |-> resolved.cpCalls, mdpCalls |-> built.mdpCalls]

BuildOutcomes ==
    {BuildOutcome(o[1], o[2]) : o \in OpaqueIDOrders(addedModules) \X CommitOrders(addedModules)}

Build ==
    /\ buildResult = {}
    /\ \E out \in BuildOutcomes :
          /\ buildResult' = {out.result}
          /\ cpCalls' = out.cpCalls
          /\ mdpCalls' = out.mdpCalls
    /\ UNCHANGED <<addedModules, commitProvider, moduleDataProvider>>
    /\ UNCHANGED <<providerVars, lazyVars, cacheVars, keyVars, graphVars, b5Vars, tailVars>>

BuilderNext ==
    \/ \E localModule \in LocalModules, isTarget \in BOOLEAN : AddLocalModule(localModule, isTarget)
    \/ \E remoteModuleKey \in BuilderModuleKeys, isTarget \in BOOLEAN :
          AddRemoteModule(remoteModuleKey, isTarget)
    \/ Build

Spec == BuilderInit /\ [][BuilderNext]_vars

(***************************************************************************)
(* The module set builder over providers that answer with another number   *)
(* of results than they were given keys.                                   *)
(***************************************************************************)
MiscountInit ==
    /\ addedModules = <<>>
    /\ commitProvider \in MiscountingCommitProviders
    /\ moduleDataProvider \in {[impl |-> "ok"]} \cup MiscountingModuleDataProviders
    /\ buildResult = {}
    /\ cpCalls = <<>>
    /\ mdpCalls = <<>>
    /\ ProviderIdle
    /\ LazyIdle
    /\ CacheIdle
    /\ KeyIdle
    /\ GraphIdle
    /\ B5Idle
    /\ TailIdle

SpecMiscount == MiscountInit /\ [][BuilderNext]_vars

(***************************************************************************)
(* The module set builder over ModuleDataProviders that answer with the    *)
(* ModuleData of another key.                                              *)
(***************************************************************************)
MismatchInit ==
    /\ addedModules = <<>>
    /\ commitProvider = [impl |-> "nop", commitIDToCreateTime |-> [c \in {} |-> 1]]
    /\ moduleDataProvider \in {[impl |-> "ok"]} \cup MismatchingModuleDataProviders
    /\ buildResult = {}
    /\ cpCalls = <<>>
    /\ mdpCalls = <<>>
    /\ ProviderIdle
    /\ LazyIdle
    /\ CacheIdle
    /\ KeyIdle
    /\ GraphIdle
    /\ B5Idle
    /\ TailIdle

SpecMismatch == MismatchInit /\ [][BuilderNext]_vars

\* The state of the builder while another part of the program is studied.
BuilderIdle ==
    /\ addedModules = <<>>
    /\ commitProvider = [impl |-> "nop", commitIDToCreateTime |-> [c \in {} |-> 1]]
    /\ moduleDataProvider = [impl |-> "ok"]
    /\ buildResult = {}
    /\ cpCalls = <<>>
    /\ mdpCalls = <<>>

(***************************************************************************)
(* The providers: one call on one of them, against any registry.           *)
(***************************************************************************)
ProviderInit ==
    /\ registry \in [CommitIDs -> CommitStatuses]
    /\ omni \in OmniProviders
    /\ providerCall = {}
    /\ requests = <<>>
    /\ accessed = {}
    /\ BuilderIdle
    /\ LazyIdle
    /\ CacheIdle
    /\ KeyIdle
    /\ GraphIdle
    /\ B5Idle
    /\ TailIdle

Call(impl, op, moduleKeys, outcome) ==
    [impl |-> impl, op |-> op, moduleKeys |-> moduleKeys, outcome |-> outcome]

ApiGetModuleDatasForModuleKeys ==
    /\ providerCall = {}
    /\ \E moduleKeys \in KeyLists :
        /\ \E registryOrder \in RegistryOrders(moduleKeys) :
              /\ providerCall' =
                    {Call("api", "GetModuleDatasForModuleKeys", moduleKeys,
                          apiGetModuleDatasForModuleKeys(registry, moduleKeys, registryOrder))}
              /\ requests' = apiRequests(registry, moduleKeys, registryOrder)
        /\ UNCHANGED <<registry, omni, accessed, builderVars, lazyVars, cacheVars, keyVars, graphVars, b5Vars, tailVars>>

PerKeyGetModuleDatasForModuleKeys ==
    /\ providerCall = {}
    /\ \E moduleKeys \in KeyLists :
        /\ providerCall' =
              {Call("perKey", "GetModuleDatasForModuleKeys", moduleKeys,
                    perKeyGetModuleDatasForModuleKeys(registry, moduleKeys))}
        /\ requests' = perKeyRequests(registry, moduleKeys, 1, <<>>)
        /\ UNCHANGED <<registry, omni, accessed, builderVars, lazyVars, cacheVars, keyVars, graphVars, b5Vars, tailVars>>

OmniGetModuleDatasForModuleKeys ==
    /\ providerCall = {}
    /\ \E moduleKeys \in KeyLists :
        /\ providerCall' =
              {Call("omni", "GetModuleDatasForModuleKeys", moduleKeys,
                    omniGetModuleDatasForModuleKeys(omni.moduleFullNames, moduleKeys))}
        /\ UNCHANGED <<registry, omni, requests, accessed, builderVars, lazyVars, cacheVars, keyVars, graphVars, b5Vars, tailVars>>

\* The commits of the keys, asked of the registry in one GetCommits RPC.
ApiGetCommits ==
    /\ providerCall = {}
    /\ \E moduleKeys \in KeyLists :
        /\ providerCall' =
              {Call("api", "GetCommitsForModuleKeys", moduleKeys,
                    getProtoCommitsForRegistryAndCommitIDs(
                        registry, [i \in DOMAIN moduleKeys |-> moduleKeys[i].commitID]))}
        /\ UNCHANGED <<registry, omni, requests, accessed, builderVars, lazyVars, cacheVars, keyVars, graphVars, b5Vars, tailVars>>

\* (commits, err) as the outcome of a call; an unknown commit ID is a not-found.
CommitsOutcome(got) ==
    IF got.err # {} THEN Return({}, got.err, {"NotFound"}) ELSE Return({got.commits}, {}, {})

OmniGetCommitsForModuleKeys ==
    /\ providerCall = {}
    /\ \E moduleKeys \in KeyLists :
        /\ providerCall' =
              {Call("omni", "GetCommitsForModuleKeys", moduleKeys,
                    CommitsOutcome(omniGetCommitsForModuleKeys(omni.commitIDToCreateTime, moduleKeys)))}
        /\ UNCHANGED <<registry, omni, requests, accessed, builderVars, lazyVars, cacheVars, keyVars, graphVars, b5Vars, tailVars>>

NopGetCommitsForModuleKeys ==
    /\ providerCall = {}
    /\ \E moduleKeys \in KeyLists :
        /\ providerCall' =
              {Call("nop", "GetCommitsForModuleKeys", moduleKeys,
                    CommitsOutcome(nopGetCommitsForModuleKeys(moduleKeys)))}
        /\ UNCHANGED <<registry, omni, requests, accessed, builderVars, lazyVars, cacheVars, keyVars, graphVars, b5Vars, tailVars>>

\* The ModuleDatas a GetModuleDatasForModuleKeys call returned without error.
ReturnedModuleDatas ==
    UNION {{[impl |-> c.impl, index |-> i,
             moduleKey |-> Only(Only(c.outcome.result)[i]).moduleKey] :
               i \in DOMAIN Only(c.outcome.result)} :
           c \in {d \in providerCall : /\ d.op = "GetModuleDatasForModuleKeys"
                                        /\ d.outcome.kind = "return"
                                        /\ d.outcome.err = {}}}

\* ModuleData.Bucket is read for the first time: the per-key provider's closure
\* fetches the blobs; the closures of the other providers send nothing.
ModuleDataBucket(i) ==
    /\ \E moduleData \in ReturnedModuleDatas :
        /\ moduleData.index = i
        /\ [index |-> i, part |-> "Bucket"] \notin accessed
        /\ Cardinality(accessed) < MaxAccesses
        /\ accessed' = accessed \cup {[index |-> i, part |-> "Bucket"]}
        /\ requests' = IF moduleData.impl = "perKey"
                       THEN requests \o getBucketForProtoFileNodes(moduleData.moduleKey)
                       ELSE requests
    /\ UNCHANGED <<registry, omni, providerCall, builderVars, lazyVars, cacheVars, keyVars, graphVars, b5Vars, tailVars>>

\* ModuleData.DeclaredDepModuleKeys is read for the first time: the per-key
\* provider's closure looks the dependencies up.
ModuleDataDeclaredDepModuleKeys(i) ==
    /\ \E moduleData \in ReturnedModuleDatas :
        /\ moduleData.index = i
        /\ [index |-> i, part |-> "DeclaredDepModuleKeys"] \notin accessed
        /\ Cardinality(accessed) < MaxAccesses
        /\ accessed' = accessed \cup {[index |-> i, part |-> "DeclaredDepModuleKeys"]}
        /\ requests' = IF moduleData.impl = "perKey"
                       THEN requests \o getModuleKeysForProtoCommits(
                                moduleData.moduleKey.moduleFullName.registry,
                                ProtoCommitDeps[moduleData.moduleKey.commitID], 1)
                       ELSE requests
    /\ UNCHANGED <<registry, omni, providerCall, builderVars, lazyVars, cacheVars, keyVars, graphVars, b5Vars, tailVars>>

ProviderNext ==
    \/ ApiGetModuleDatasForModuleKeys
    \/ PerKeyGetModuleDatasForModuleKeys
    \/ OmniGetModuleDatasForModuleKeys
    \/ ApiGetCommits
    \/ OmniGetCommitsForModuleKeys
    \/ NopGetCommitsForModuleKeys
    \/ \E i \in 1..MaxKeys :
        \/ ModuleDataBucket(i)
        \/ ModuleDataDeclaredDepModuleKeys(i)

SpecProvider == ProviderInit /\ [][ProviderNext]_vars

(***************************************************************************)
(* The lazy module: read operations on it.                                 *)
(***************************************************************************)
LazyInit ==
    /\ lazyModule \in LazyModules
    /\ lazyOnce = {}
    /\ reads = 0
    /\ readResult = {}
    /\ moduleFetches = 0
    /\ moduleSeen = {}
    /\ KeyIdle
    /\ GraphIdle
    /\ B5Idle
    /\ TailIdle
    /\ BuilderIdle
    /\ ProviderIdle
    /\ CacheIdle

\* What m.getModuleFunc() returns now; aborted: the run of the function, if there is
\* one, is aborted by the cancellation of its context.
Loaded(aborted) == onceValues(lazyOnce, fetch(aborted, lazyModule.getModuleFunc))

\* The read operation op on the loaded module.
moduleRead(op, module, path) ==
    CASE op = "GetFile" -> moduleGetFile(module, path)
      [] op = "StatFileInfo" -> moduleStatFileInfo(module, path)
      [] op = "WalkFileInfos" -> moduleWalkFileInfos(module)
      [] op = "DepModules" -> moduleDepModules(module)

\* A read operation: getModule, then, if it gave a module, the operation on it.
read(op, path, aborted) ==
    LET module == getModule(lazyModule, Loaded(aborted))
    IN  [op |-> op,
         fetched |-> onceRuns(lazyOnce) = 1,
         result |-> IF module.err # {} THEN Error(Only(module.err))
                    ELSE moduleRead(op, Only(module.value), path)]

GetFile(path, aborted) ==
    /\ reads < MaxReads
    /\ reads' = reads + 1
    /\ lazyOnce' = {Loaded(aborted)}
    /\ moduleFetches' = moduleFetches + onceRuns(lazyOnce)
    /\ moduleSeen' = moduleSeen \cup {Loaded(aborted)}
    /\ readResult' = {read("GetFile", path, aborted)}
    /\ UNCHANGED <<lazyModule, builderVars, providerVars, cacheVars, keyVars, graphVars, b5Vars, tailVars>>

StatFileInfo(path, aborted) ==
    /\ reads < MaxReads
    /\ reads' = reads + 1
    /\ lazyOnce' = {Loaded(aborted)}
    /\ moduleFetches' = moduleFetches + onceRuns(lazyOnce)
    /\ moduleSeen' = moduleSeen \cup {Loaded(aborted)}
    /\ readResult' = {read("StatFileInfo", path, aborted)}
    /\ UNCHANGED <<lazyModule, builderVars, providerVars, cacheVars, keyVars, graphVars, b5Vars, tailVars>>

WalkFileInfos(aborted) ==
    /\ reads < MaxReads
    /\ reads' = reads + 1
    /\ lazyOnce' = {Loaded(aborted)}
    /\ moduleFetches' = moduleFetches + onceRuns(lazyOnce)
    /\ moduleSeen' = moduleSeen \cup {Loaded(aborted)}
    /\ readResult' = {read("WalkFileInfos", "", aborted)}
    /\ UNCHANGED <<lazyModule, builderVars, providerVars, cacheVars, keyVars, graphVars, b5Vars, tailVars>>

DepModules(aborted) ==
    /\ reads < MaxReads
    /\ reads' = reads + 1
    /\ lazyOnce' = {Loaded(aborted)}
    /\ moduleFetches' = moduleFetches + onceRuns(lazyOnce)
    /\ moduleSeen' = moduleSeen \cup {Loaded(aborted)}
    /\ readResult' = {read("DepModules", "", aborted)}
    /\ UNCHANGED <<lazyModule, builderVars, providerVars, cacheVars, keyVars, graphVars, b5Vars, tailVars>>

NewModuleKey(moduleFullName, commitID, digest) ==
    /\ keyResult = {}
    /\ keyResult' = {newModuleKeyForKnownDigest(moduleFullName, commitID, digest)}
    /\ UNCHANGED <<digestOnce, digestCalls, digestFetches, digestSeen, digestResult>>
    /\ UNCHANGED <<lazyVars, builderVars, providerVars, cacheVars, graphVars, b5Vars, tailVars>>

NewModuleKeyForLazyDigest(moduleFullName, commitID, getDigest) ==
    /\ keyResult = {}
    /\ keyResult' = {newModuleKeyForLazyDigest(moduleFullName, commitID, getDigest)}
    /\ UNCHANGED <<digestOnce, digestCalls, digestFetches, digestSeen, digestResult>>
    /\ UNCHANGED <<lazyVars, builderVars, providerVars, cacheVars, graphVars, b5Vars, tailVars>>

\* Digest() on the ModuleKey that was constructed.
Digest(aborted) ==
    /\ keyResult # {}
    /\ Only(keyResult).err = {}
    /\ digestCalls < MaxReads
    /\ LET key == Only(Only(keyResult).value)
           result == moduleKeyDigest(key, digestOnce, fetch(aborted, Only(key.getDigest)))
           ran == IF key.digest # {} THEN 0 ELSE onceRuns(digestOnce)
       IN  /\ digestOnce' = IF key.digest # {} THEN digestOnce ELSE {result}
           /\ digestFetches' = digestFetches + ran
           /\ digestSeen' = digestSeen \cup {result}
           /\ digestResult' = {[result |-> result, fetched |-> ran = 1]}
    /\ digestCalls' = digestCalls + 1
    /\ UNCHANGED keyResult
    /\ UNCHANGED <<lazyVars, builderVars, providerVars, cacheVars, graphVars, b5Vars, tailVars>>

LazyNext ==
    \/ \E path \in Paths, aborted \in BOOLEAN : GetFile(path, aborted)
    \/ \E path \in Paths, aborted \in BOOLEAN : StatFileInfo(path, aborted)
    \/ \E aborted \in BOOLEAN : WalkFileInfos(aborted)
    \/ \E aborted \in BOOLEAN : DepModules(aborted)
    \/ \E moduleFullName \in KeyFullNames, commitID \in KeyCommitIDs, digest \in KeyDigests :
            NewModuleKey(moduleFullName, commitID, digest)
    \/ \E moduleFullName \in KeyFullNames, commitID \in KeyCommitIDs,
          getDigest \in GetDigestFuncs :
            NewModuleKeyForLazyDigest(moduleFullName, commitID, getDigest)
    \/ \E aborted \in BOOLEAN : Digest(aborted)

SpecLazy == LazyInit /\ [][LazyNext]_vars

(***************************************************************************)
(* Concurrent callers of one cache.                                        *)
(***************************************************************************)
\* The number of goroutines that call the cache.
NumCallers == 2

\* The number of calls they make between them.
MaxCacheCalls == 3

Callers == 1..NumCallers

EmptyCache == [filePath \in {} |-> Error(ErrNotExist)]

\* The cache of a ModuleSet: setModuleSet was called with it, once.
CacheInit ==
    /\ moduleSet \in ModuleSets
    /\ setModuleSetCalled = TRUE
    /\ setModuleSetErrs = <<{}>>
    /\ filePathToModule = EmptyCache
    /\ filePathToImports = EmptyCache
    /\ lock = {}
    /\ callers = [t \in Callers |-> IdleCaller]
    /\ moduleScans = [filePath \in Paths |-> 0]
    /\ importScans = [filePath \in Paths |-> 0]
    /\ cacheCalls = 0
    /\ returned = {}
    /\ BuilderIdle
    /\ ProviderIdle
    /\ LazyIdle
    /\ KeyIdle
    /\ GraphIdle
    /\ B5Idle
    /\ TailIdle

errSetModuleSetAlreadyCalled == NewError(<<"cache.setModuleSet already called">>)

errSetModuleSetNeverCalled == NewError(<<"cache.setModuleSet never called">>)

\* A cache call that returned.
Returned(op, filePath, result) == [op |-> op, filePath |-> filePath, result |-> result]

\* A caller that found no entry under the read lock and goes for the write lock.
Waiting(op, filePath) == [pc |-> "Lock", op |-> op, filePath |-> filePath]

\* cache.GetModuleForFilePath up to the first look at the map, under the read lock
\* (which no caller gets while another holds the write lock).
GetModuleForFilePath(t, filePath) ==
    /\ callers[t].pc = "idle"
    /\ cacheCalls < MaxCacheCalls
    /\ lock = {}
    /\ cacheCalls' = cacheCalls + 1
    /\ IF ~setModuleSetCalled
       THEN /\ returned' = returned \cup
                    {Returned("GetModuleForFilePath", filePath, Error(errSetModuleSetNeverCalled))}
            /\ UNCHANGED callers
       ELSE IF filePath \in DOMAIN filePathToModule
       THEN /\ returned' = returned \cup
                    {Returned("GetModuleForFilePath", filePath, filePathToModule[filePath])}
            /\ UNCHANGED callers
       ELSE /\ callers' = [callers EXCEPT ![t] = Waiting("GetModuleForFilePath", filePath)]
            /\ UNCHANGED returned
    /\ UNCHANGED <<moduleSet, setModuleSetCalled, setModuleSetErrs, filePathToModule, filePathToImports, lock, moduleScans,
                   importScans>>
    /\ UNCHANGED <<builderVars, providerVars, lazyVars, keyVars, graphVars, b5Vars, tailVars>>

\* cache.GetImportsForFilePath up to the first look at the map.
GetImportsForFilePath(t, filePath) ==
    /\ callers[t].pc = "idle"
    /\ cacheCalls < MaxCacheCalls
    /\ lock = {}
    /\ cacheCalls' = cacheCalls + 1
    /\ IF ~setModuleSetCalled
       THEN /\ returned' = returned \cup
                    {Returned("GetImportsForFilePath", filePath, Error(errSetModuleSetNeverCalled))}
            /\ UNCHANGED callers
       ELSE IF filePath \in DOMAIN filePathToImports
       THEN /\ returned' = returned \cup
                    {Returned("GetImportsForFilePath", filePath, filePathToImports[filePath])}
            /\ UNCHANGED callers
       ELSE /\ callers' = [callers EXCEPT ![t] = Waiting("GetImportsForFilePath", filePath)]
            /\ UNCHANGED returned
    /\ UNCHANGED <<moduleSet, setModuleSetCalled, setModuleSetErrs, filePathToModule, filePathToImports, lock, moduleScans,
                   importScans>>
    /\ UNCHANGED <<builderVars, providerVars, lazyVars, keyVars, graphVars, b5Vars, tailVars>>

\* lock.Lock()
Lock(t) ==
    /\ callers[t].pc = "Lock"
    /\ lock = {}
    /\ lock' = {t}
    /\ callers' = [callers EXCEPT ![t].pc = "Locked"]
    /\ UNCHANGED <<moduleSet, setModuleSetCalled, setModuleSetErrs, filePathToModule, filePathToImports, moduleScans, importScans,
                   cacheCalls, returned>>
    /\ UNCHANGED <<builderVars, providerVars, lazyVars, keyVars, graphVars, b5Vars, tailVars>>

\* GetModuleForFilePath under the write lock: GetOrAddToCache on filePathToModule,
\* then lock.Unlock() and the return.
AddModuleUnderLock(t) ==
    /\ callers[t].pc = "Locked"
    /\ callers[t].op = "GetModuleForFilePath"
    /\ LET filePath == callers[t].filePath
           got == GetOrAddToCache(filePathToModule, filePath,
                                  getModuleForFilePathUncached(moduleSet, filePath))
       IN  /\ filePathToModule' = got.cache
           /\ moduleScans' = [moduleScans EXCEPT ![filePath] = @ + got.ran]
           /\ returned' = returned \cup {Returned("GetModuleForFilePath", filePath, got.tuple)}
    /\ lock' = {}
    /\ callers' = [callers EXCEPT ![t] = IdleCaller]
    /\ UNCHANGED <<moduleSet, setModuleSetCalled, setModuleSetErrs, filePathToImports, importScans, cacheCalls>>
    /\ UNCHANGED <<builderVars, providerVars, lazyVars, keyVars, graphVars, b5Vars, tailVars>>

\* GetImportsForFilePath under the write lock: GetOrAddToCache on filePathToImports,
\* whose uncached computation fills filePathToModule as well.
AddImportsUnderLock(t) ==
    /\ callers[t].pc = "Locked"
    /\ callers[t].op = "GetImportsForFilePath"
    /\ LET filePath == callers[t].filePath
           uncached == getImportsForFilePathUncached(moduleSet, filePathToModule, filePath)
           got == GetOrAddToCache(filePathToImports, filePath, uncached.tuple)
       IN  IF got.ran = 1 /\ uncached.locks > 0
           THEN \* sync.RWMutex is not reentrant: the holder blocks on its own lock.
                /\ callers' = [callers EXCEPT ![t].pc = "Relock"]
                /\ UNCHANGED <<lock, filePathToImports, filePathToModule, importScans,
                               moduleScans, returned>>
           ELSE /\ filePathToImports' = got.cache
                /\ filePathToModule' =
                       IF got.ran = 1 THEN uncached.filePathToModule ELSE filePathToModule
                /\ importScans' = [importScans EXCEPT ![filePath] = @ + got.ran]
                /\ moduleScans' = [moduleScans EXCEPT ![filePath] = @ + got.ran * uncached.ran]
                /\ returned' = returned \cup
                       {Returned("GetImportsForFilePath", filePath, got.tuple)}
                /\ lock' = {}
                /\ callers' = [callers EXCEPT ![t] = IdleCaller]
    /\ UNCHANGED <<moduleSet, setModuleSetCalled, setModuleSetErrs, cacheCalls>>
    /\ UNCHANGED <<builderVars, providerVars, lazyVars, keyVars, graphVars, b5Vars, tailVars>>

\* Mutant: setModuleSet stores the ModuleSet on every call.
SetModuleSetAgain(ms) ==
    /\ Len(setModuleSetErrs) < MaxSetCalls
    /\ moduleSet' = ms
    /\ setModuleSetCalled' = TRUE
    /\ setModuleSetErrs' = Append(setModuleSetErrs, {})
    /\ UNCHANGED <<filePathToModule, filePathToImports, lock, callers, moduleScans, importScans,
                   cacheCalls, returned>>
    /\ UNCHANGED <<builderVars, providerVars, lazyVars, keyVars, graphVars, b5Vars, tailVars>>

\* cache.setModuleSet: the flag is read and written without the lock.
SetModuleSet(ms) ==
    /\ Len(setModuleSetErrs) < MaxSetCalls
    /\ IF setModuleSetCalled
       THEN /\ setModuleSetErrs' = Append(setModuleSetErrs, {errSetModuleSetAlreadyCalled})
            /\ UNCHANGED <<moduleSet, setModuleSetCalled>>
       ELSE /\ moduleSet' = ms
            /\ setModuleSetCalled' = TRUE
            /\ setModuleSetErrs' = Append(setModuleSetErrs, {})
    /\ UNCHANGED <<filePathToModule, filePathToImports, lock, callers, moduleScans, importScans,
                   cacheCalls, returned>>
    /\ UNCHANGED <<builderVars, providerVars, lazyVars, keyVars, graphVars, b5Vars, tailVars>>

CacheNext ==
    \/ \E t \in Callers, filePath \in Paths : GetModuleForFilePath(t, filePath)
    \/ \E t \in Callers, filePath \in Paths : GetImportsForFilePath(t, filePath)
    \/ \E t \in Callers : Lock(t)
    \/ \E t \in Callers : AddModuleUnderLock(t)
    \/ \E t \in Callers : AddImportsUnderLock(t)

SpecCache == CacheInit /\ [][CacheNext]_vars

\* The cache with callers that go on: a caller that waits for the lock takes it once
\* it is free, and a caller that holds it finishes its locked section (the reads of
\* the modules return).
SpecCacheFair ==
    /\ SpecCache
    /\ \A t \in Callers :
          /\ WF_vars(Lock(t))
          /\ WF_vars(AddModuleUnderLock(t))
          /\ WF_vars(AddImportsUnderLock(t))

\* newCache: the maps are empty and no ModuleSet is set.
NewCacheInit ==
    /\ moduleSet = <<>>
    /\ setModuleSetCalled = FALSE
    /\ setModuleSetErrs = <<>>
    /\ filePathToModule = EmptyCache
    /\ filePathToImports = EmptyCache
    /\ lock = {}
    /\ callers = [t \in Callers |-> IdleCaller]
    /\ moduleScans = [filePath \in Paths |-> 0]
    /\ importScans = [filePath \in Paths |-> 0]
    /\ cacheCalls = 0
    /\ returned = {}
    /\ BuilderIdle
    /\ ProviderIdle
    /\ LazyIdle
    /\ KeyIdle
    /\ GraphIdle
    /\ B5Idle
    /\ TailIdle

NewCacheNext ==
    \/ CacheNext
    \/ \E ms \in ModuleSets : SetModuleSet(ms)

SpecNewCache == NewCacheInit /\ [][NewCacheNext]_vars

(***************************************************************************)
(* Build over modules that depend on each other.                           *)
(***************************************************************************)
\* The number of dependencies declared between the modules.
MaxDeps == 3

GraphInit ==
    /\ depEdges = {}
    /\ graphBuild = {}
    /\ BuilderIdle
    /\ ProviderIdle
    /\ LazyIdle
    /\ KeyIdle
    /\ CacheIdle
    /\ B5Idle
    /\ TailIdle

\* A module given to Build declares a dependency (on itself, too).
AddDep(module, dep) ==
    /\ graphBuild = {}
    /\ Cardinality(depEdges) < MaxDeps
    /\ <<module, dep>> \notin depEdges
    /\ depEdges' = depEdges \cup {<<module, dep>>}
    /\ UNCHANGED graphBuild
    /\ UNCHANGED <<builderVars, providerVars, lazyVars, cacheVars, keyVars, b5Vars, tailVars>>

\* Build, for its validation of the dependency relation.
BuildModuleSet ==
    /\ graphBuild = {}
    /\ graphBuild' = {validateAcyclic(depEdges)}
    /\ UNCHANGED depEdges
    /\ UNCHANGED <<builderVars, providerVars, lazyVars, cacheVars, keyVars, b5Vars, tailVars>>

GraphNext ==
    \/ \E module \in GraphModules, dep \in GraphModules : AddDep(module, dep)
    \/ BuildModuleSet

SpecGraph == GraphInit /\ [][GraphNext]_vars

(***************************************************************************)
(* ModuleDigestB5 on a Module whose dependencies are reordered and whose   *)
(* names are changed between the calls.                                    *)
(***************************************************************************)
\* The number of changes made to the Module.
MaxChanges == 2

B5Init ==
    /\ b5Module \in B5Modules
    /\ b5First = {}
    /\ b5Last = {}
    /\ b5Changes = 0
    /\ BuilderIdle
    /\ ProviderIdle
    /\ LazyIdle
    /\ KeyIdle
    /\ CacheIdle
    /\ GraphIdle
    /\ TailIdle

\* DepModules returns the dependencies i and i + 1 in the other order.
SwapDepModules(i) ==
    /\ b5Changes < MaxChanges
    /\ i + 1 \in DOMAIN b5Module.depModules
    /\ b5Module' = [b5Module EXCEPT !.depModules =
                        [@ EXCEPT ![i] = b5Module.depModules[i + 1],
                                  ![i + 1] = b5Module.depModules[i]]]
    /\ b5Changes' = b5Changes + 1
    /\ UNCHANGED <<b5First, b5Last>>
    /\ UNCHANGED <<builderVars, providerVars, lazyVars, cacheVars, keyVars, graphVars, tailVars>>

\* The Module gets another name.
RenameModule(name) ==
    /\ b5Changes < MaxChanges
    /\ name # b5Module.name
    /\ b5Module' = [b5Module EXCEPT !.name = name]
    /\ b5Changes' = b5Changes + 1
    /\ UNCHANGED <<b5First, b5Last>>
    /\ UNCHANGED <<builderVars, providerVars, lazyVars, cacheVars, keyVars, graphVars, tailVars>>

\* The dependency i gets another name.
RenameDepModule(i, name) ==
    /\ b5Changes < MaxChanges
    /\ i \in DOMAIN b5Module.depModules
    /\ name # b5Module.depModules[i].name
    /\ b5Module' = [b5Module EXCEPT !.depModules[i].name = name]
    /\ b5Changes' = b5Changes + 1
    /\ UNCHANGED <<b5First, b5Last>>
    /\ UNCHANGED <<builderVars, providerVars, lazyVars, cacheVars, keyVars, graphVars, tailVars>>

\* A call of ModuleDigestB5 on the Module as it is now.
CallModuleDigestB5 ==
    /\ \A last \in b5Last : last.module # b5Module
    /\ b5Last' = {[module |-> b5Module, result |-> ModuleDigestB5(b5Module)]}
    /\ b5First' = IF b5First = {} THEN b5Last' ELSE b5First
    /\ UNCHANGED <<b5Module, b5Changes>>
    /\ UNCHANGED <<builderVars, providerVars, lazyVars, cacheVars, keyVars, graphVars, tailVars>>

B5Next ==
    \/ \E i \in 1..2 : SwapDepModules(i)
    \/ \E name \in B5Names : RenameModule(name)
    \/ \E i \in 1..2, name \in B5Names : RenameDepModule(i, name)
    \/ CallModuleDigestB5

SpecB5 == B5Init /\ [][B5Next]_vars

(***************************************************************************)
(* Resolution: what the claims speak of.                                   *)
(***************************************************************************)
Built == buildResult # {}

\* Build ran and getUniqueSortedAddedModulesByOpaqueID returned no error.
Resolved == Built /\ Only(buildResult).resolveErr = {}

ResolvedAddedModules == Only(buildResult).resolved

AddedOpaqueIDs == {OpaqueID(addedModules[i]) : i \in DOMAIN addedModules}

\* The added entries of an OpaqueID, in Add order.
Group(id) == SelectSeq(addedModules, LAMBDA a : OpaqueID(a) = id)

\* The entries of the group that target filtering leaves.
Candidates(id) ==
    IF \E i \in DOMAIN Group(id) : Group(id)[i].isTarget
    THEN SelectSeq(Group(id), IsTarget)
    ELSE Group(id)

\* The entry resolution selected for the OpaqueID.
SelectedFor(id) ==
    {ResolvedAddedModules[i] :
        i \in {j \in DOMAIN ResolvedAddedModules : OpaqueID(ResolvedAddedModules[j]) = id}}

\* The keys of all calls made on a provider.
CalledKeys(calls) == UNION {Range(calls[i]) : i \in DOMAIN calls}

\* C2: in every group of added entries that share an OpaqueID, the selected entry is
\* a target if and only if some entry of the group is a target.
C2_TargetPreferred ==
    Resolved =>
        \A id \in AddedOpaqueIDs : \A a \in SelectedFor(id) :
            a.isTarget <=> (\E i \in DOMAIN Group(id) : Group(id)[i].isTarget)

\* A target remote entry was selected over a non-target local entry of the same OpaqueID.
C2_Witness ==
    /\ Resolved
    /\ \E id \in AddedOpaqueIDs : \E a \in SelectedFor(id) :
          /\ a.isTarget /\ ~IsLocal(a)
          /\ \E i \in DOMAIN Group(id) : IsLocal(Group(id)[i]) /\ ~Group(id)[i].isTarget

\* C3 as claimed: for every added local module M and every added remote key with the
\* same OpaqueID, the resolved set contains M and the ModuleDataProvider is never
\* called with that key.
C3_LocalAlwaysWins ==
    Built =>
        \A i, j \in DOMAIN addedModules :
            (/\ IsLocal(addedModules[i]) /\ ~IsLocal(addedModules[j])
             /\ OpaqueID(addedModules[i]) = OpaqueID(addedModules[j]))
            => /\ Resolved => addedModules[i] \in Range(ResolvedAddedModules)
               /\ Only(addedModules[j].remoteModuleKey) \notin CalledKeys(mdpCalls)

\* The group has a local entry that target filtering leaves.
LocalSurvives(id) == \E i \in DOMAIN Candidates(id) : IsLocal(Candidates(id)[i])

\* C3 as amended: for an OpaqueID with a local and a remote entry whose local entry
\* survives target filtering (no entry of the group is a target, or a local one is),
\* the first surviving local module is selected and the ModuleDataProvider is never
\* called with a remote key of that OpaqueID.
C3_LocalWinsAfterTargeting ==
    Built =>
        \A id \in AddedOpaqueIDs :
            (LocalSurvives(id) /\ \E i \in DOMAIN Group(id) : ~IsLocal(Group(id)[i]))
            => /\ Resolved => SelectedFor(id) = {SelectSeq(Candidates(id), IsLocal)[1]}
               /\ \A k \in CalledKeys(mdpCalls) : ModuleFullNameString(k.moduleFullName) # id

\* A local module was selected over a remote key of another commit added before it,
\* while a remote survivor of another OpaqueID was fetched.
C3_Witness ==
    /\ Resolved
    /\ mdpCalls # <<>>
    /\ \E id \in AddedOpaqueIDs : \E a \in SelectedFor(id) :
          /\ IsLocal(a)
          /\ \E i \in DOMAIN addedModules :
                /\ i < a.ptr /\ ~IsLocal(addedModules[i]) /\ OpaqueID(addedModules[i]) = id
                /\ {RemoteCommitID(addedModules[i])} # Only(a.localModule).commitID

\* C4: if the candidates left by target filtering include a local module, the
\* earliest-added local candidate is selected, and the CommitProvider is not
\* consulted for the group.
C4_FirstLocalSelected ==
    Built =>
        \A id \in AddedOpaqueIDs :
            LocalSurvives(id)
            => /\ Resolved => SelectedFor(id) = {SelectSeq(Candidates(id), IsLocal)[1]}
               /\ \A k \in CalledKeys(cpCalls) : ModuleFullNameString(k.moduleFullName) # id

\* Two local candidates and two remote candidates of distinct commits: the first
\* local one was selected, though it was not the first entry of the group.
C4_Witness ==
    /\ Resolved
    /\ \E id \in AddedOpaqueIDs :
          /\ Len(SelectSeq(Candidates(id), IsLocal)) >= 2
          /\ ~IsLocal(Candidates(id)[1])
          /\ SelectedFor(id) = {SelectSeq(Candidates(id), IsLocal)[1]}

\* The create time the builder's CommitProvider gives for an entry's commit.
CreateTimeOf(a) == commitProvider.commitIDToCreateTime[RemoteCommitID(a)]

\* All candidates are remote and have two or more distinct commit IDs.
RemoteContested(id) ==
    /\ \A i \in DOMAIN Candidates(id) : ~IsLocal(Candidates(id)[i])
    /\ Cardinality({RemoteCommitID(Candidates(id)[i]) : i \in DOMAIN Candidates(id)}) >= 2

C6_Deterministic ==
    Built =>
        \A out \in BuildOutcomes :
            /\ out.result.resolved = Only(buildResult).resolved
            /\ out.result.resolveErr = Only(buildResult).resolveErr

\* C7: the resolved list has exactly one entry for each distinct OpaqueID among the
\* added entries, each of them an added entry, in strictly ascending OpaqueID order.
C7_UniqueSortedByOpaqueID ==
    Resolved =>
        /\ \A id \in AddedOpaqueIDs : Cardinality(SelectedFor(id)) = 1
        /\ Len(ResolvedAddedModules) = Cardinality(AddedOpaqueIDs)
        /\ \A i \in DOMAIN ResolvedAddedModules :
              /\ ResolvedAddedModules[i].ptr \in DOMAIN addedModules
              /\ addedModules[ResolvedAddedModules[i].ptr] = ResolvedAddedModules[i]
        /\ \A i \in 1..(Len(ResolvedAddedModules) - 1) :
              StrLess(OpaqueID(ResolvedAddedModules[i]), OpaqueID(ResolvedAddedModules[i + 1]))

\* Three OpaqueIDs were added in descending order and resolved.
C7_Witness ==
    /\ Resolved
    /\ Len(ResolvedAddedModules) = 3
    /\ StrLess(OpaqueID(addedModules[2]), OpaqueID(addedModules[1]))
    /\ StrLess(OpaqueID(addedModules[3]), OpaqueID(addedModules[2]))

(***************************************************************************)
(* Provider calls: what the claims speak of.                               *)
(***************************************************************************)
\* The slice a call returned; a nil slice has no elements.
ResultOf(c) == IF c.outcome.result = {} THEN <<>> ELSE Only(c.outcome.result)

\* C8: every GetModuleDatasForModuleKeys call that returns no error returns exactly
\* len(keys) elements, the i-th being the ModuleData of the i-th key, whichever the
\* provider and whatever the registries and the order of the keys.
C8_PositionallyAligned ==
    \A c \in providerCall :
        (c.op = "GetModuleDatasForModuleKeys" /\ c.outcome.kind = "return" /\ c.outcome.err = {})
        => /\ Len(ResultOf(c)) = Len(c.moduleKeys)
           /\ \A i \in DOMAIN c.moduleKeys : ResultOf(c)[i] = NewModuleData(c.moduleKeys[i])

\* The provider called cannot resolve the key.
KeyFails(c, moduleKey) ==
    CASE c.impl \in {"api", "perKey"} -> registry[moduleKey.commitID] # "ok"
      [] c.impl = "omni" /\ c.op = "GetModuleDatasForModuleKeys" ->
            moduleKey.moduleFullName \notin omni.moduleFullNames
      [] c.impl = "omni" /\ c.op = "GetCommitsForModuleKeys" ->
            moduleKey.commitID \notin DOMAIN omni.commitIDToCreateTime
      [] OTHER -> TRUE

C10_NotFoundIsErrNotExist ==
    \A c \in providerCall :
        \A code \in c.outcome.reported :
            /\ c.outcome.err # {}
            /\ \A err \in c.outcome.err : ErrorsIs(err, ErrNotExist) <=> code = "NotFound"

(***************************************************************************)
(* The lazy module: what the claims speak of.                              *)
(***************************************************************************)
\* The digest of the requested identity and the digest of the loaded module, each
\* when it is known.
ExpectedDigest == lazyModule.moduleInfo.digest.value

\* The digest of the module that getModuleFunc loaded, if it loaded one.
ActualDigest ==
    UNION {module.digest.value : module \in UNION {outcome.value : outcome \in lazyOnce}}

\* The text sub is part of the text s.
Contains(s, sub) == \E i \in 0..(Len(s) - Len(sub)) : SubSeq(s, i + 1, i + Len(sub)) = sub

\* C1: whenever the digest of the loaded module differs from the digest of the
\* requested identity, a read operation returns no data and an error whose text
\* holds both digests; it returns data only when the two digests are equal.
C1_DigestVerified ==
    \A r \in readResult :
        /\ (\E e \in ExpectedDigest, a \in ActualDigest : DigestString(e) # DigestString(a))
           => /\ r.result.value = {}
              /\ \E err \in r.result.err :
                    /\ "msg" \in DOMAIN err
                    /\ \A d \in ExpectedDigest \cup ActualDigest : Contains(err.msg, DigestString(d))
        /\ r.result.value # {}
           => \E e \in ExpectedDigest, a \in ActualDigest : DigestString(e) = DigestString(a)

\* The second read of a module whose digest has the expected type and another value
\* was refused with an error that names the digest of the loaded module.
C1_Witness ==
    /\ reads = 2
    /\ \E r \in readResult, e \in ExpectedDigest, a \in ActualDigest :
          /\ e.type = a.type /\ e.value # a.value
          /\ r.op = "DepModules"
          /\ r.result.value = {}
          /\ \E err \in r.result.err : "msg" \in DOMAIN err /\ Contains(err.msg, DigestString(a))

(***************************************************************************)
(* The cache: what the claims speak of.                                    *)
(***************************************************************************)
\* The modules of the ModuleSet whose bucket contains the file.
Owners(filePath) == {i \in DOMAIN moduleSet : filePath \in moduleSet[i].files}

ModuleCalls == {r \in returned : r.op = "GetModuleForFilePath"}

\* C11: GetModuleForFilePath(p) returns the one module that contains p when exactly one
\* does, an error when none does, and, when two or more do, an error that names the
\* OpaqueIDs of all of them and no module.
C11_UniqueOwnerOrError ==
    \A r \in ModuleCalls :
        LET owners == Owners(r.filePath)
        IN  CASE Cardinality(owners) = 1 -> r.result = Value(moduleSet[Only(owners)])
              [] Cardinality(owners) = 0 -> r.result.value = {} /\ r.result.err # {}
              [] OTHER ->
                    /\ r.result.value = {}
                    /\ r.result.err # {}
                    /\ "opaqueIDs" \in DOMAIN Only(r.result.err)
                    /\ Range(Only(r.result.err).opaqueIDs)
                           = {moduleSet[i].opaqueID : i \in owners}

\* A lookup of a file that two modules contain has returned.
C11_Witness ==
    \E r \in ModuleCalls : Cardinality(Owners(r.filePath)) >= 2 /\ r.result.err # {}

ReturnedOn(op, filePath) == {r \in returned : r.op = op /\ r.filePath = filePath}

\* C12: however many callers call GetModuleForFilePath or GetImportsForFilePath on one
\* path, at the same time or one after the other, the module scan and the import scan
\* of that path each run exactly once, and every caller gets the same result.
C12_ComputedOnce ==
    \A filePath \in Paths :
        /\ moduleScans[filePath] <= 1
        /\ importScans[filePath] <= 1
        /\ (\E r \in returned : r.filePath = filePath) => moduleScans[filePath] = 1
        /\ ReturnedOn("GetImportsForFilePath", filePath) # {} => importScans[filePath] = 1
        /\ \A op \in {"GetModuleForFilePath", "GetImportsForFilePath"} :
               Cardinality({r.result : r \in ReturnedOn(op, filePath)}) <= 1

\* Two callers missed the same path under the read lock; one has filled the entry and
\* returned while the other still goes for the write lock.
C12_Witness ==
    \E t \in Callers :
        /\ callers[t].pc = "Lock"
        /\ ReturnedOn(callers[t].op, callers[t].filePath) # {}
        /\ cacheCalls = 2

\* The cache map that an operation fills with its results.
CacheMapOf(op) ==
    IF op = "GetModuleForFilePath" THEN filePathToModule ELSE filePathToImports

\* In this step, the entry of the path in the cache map is added or changed.
EntryWritten(cacheMap, cacheMapAfter, filePath) ==
    /\ filePath \in DOMAIN cacheMapAfter
    /\ filePath \notin DOMAIN cacheMap \/ cacheMap[filePath] # cacheMapAfter[filePath]

\* A step adds or changes entries under the path of the call that makes the step
\* only, and removes none.
CacheFrame ==
    \A filePath \in Paths :
        /\ filePath \in DOMAIN filePathToModule => filePath \in DOMAIN filePathToModule'
        /\ filePath \in DOMAIN filePathToImports => filePath \in DOMAIN filePathToImports'
        /\ (\/ EntryWritten(filePathToModule, filePathToModule', filePath)
            \/ EntryWritten(filePathToImports, filePathToImports', filePath))
           => \E t \in Callers : /\ callers[t].pc = "Locked"
                                 /\ callers[t].filePath = filePath
                                 /\ callers'[t].pc = "idle"

\* An error that a lookup returned is the entry of its path, and was computed once.
ErrorsCached ==
    \A r \in returned :
        r.result.err # {} =>
            /\ r.filePath \in DOMAIN CacheMapOf(r.op)
            /\ CacheMapOf(r.op)[r.filePath] = r.result
            /\ moduleScans[r.filePath] = 1
            /\ importScans[r.filePath] <= 1

\* C19: a lookup of path p adds or changes cache entries under key p only, so that
\* the entries of other paths are as they were after a conflict error on p; and the
\* error of p is itself an entry, which later lookups of p return without computing
\* it again.
C19_LookupWritesOwnPathOnly == [][CacheFrame]_vars /\ []ErrorsCached

\* Three lookups were made: a.proto is in two modules and its lookup returned the
\* conflict error, computed once, while b.proto has its entry with its one owner.
C19_Witness ==
    /\ cacheCalls = 3
    /\ \A t \in Callers : callers[t].pc = "idle"
    /\ \E r \in ReturnedOn("GetModuleForFilePath", "a.proto") :
          \E err \in r.result.err : "opaqueIDs" \in DOMAIN err
    /\ "b.proto" \in DOMAIN filePathToModule
    /\ filePathToModule["b.proto"].err = {}
    /\ moduleScans["a.proto"] = 1

(***************************************************************************)
(* Lazy fetches: what the claims speak of.                                 *)
(***************************************************************************)
\* The ModuleKey was constructed with a getDigest function.
LazyDigestKey ==
    \E r \in keyResult : \E key \in r.value : key.getDigest # {}

\* C13: over all the Digest() calls on a lazy-digest ModuleKey, and over all the read
\* operations on one lazyModule, the fetch function runs at most once (once, as soon
\* as there was a call), and every call observes the outcome of that one run.
C13_FetchedAtMostOnce ==
    /\ moduleFetches <= 1
    /\ reads >= 1 => moduleFetches = 1
    /\ moduleSeen \subseteq lazyOnce
    /\ Cardinality(moduleSeen) <= 1
    /\ digestFetches <= 1
    /\ LazyDigestKey =>
          /\ digestCalls >= 1 => digestFetches = 1
          /\ digestSeen \subseteq digestOnce
          /\ Cardinality(digestSeen) <= 1

\* Two read operations and two Digest() calls on a lazy-digest key have been made,
\* with one fetch each.
C13_Witness ==
    /\ LazyDigestKey
    /\ reads = 2 /\ moduleFetches = 1
    /\ digestCalls = 2 /\ digestFetches = 1

\* C14: a fetch that was aborted by context cancellation is not memoized: an access
\* that returns the cancellation error has run the fetch itself, it has not been handed
\* the stored error of an earlier run.
C14_CanceledFetchNotMemoized ==
    /\ \A r \in readResult : r.result.err = {ContextCanceled} => r.fetched
    /\ \A r \in digestResult : r.result.err = {ContextCanceled} => r.fetched

(***************************************************************************)
(* Resolution failures: what the claims speak of.                          *)
(***************************************************************************)
\* The errors the CommitProvider returned to the calls Build made on it.
CommitProviderErrors ==
    UNION {GetCommitsForModuleKeys(commitProvider, cpCalls[i]).err : i \in DOMAIN cpCalls}

\* C15: when the CommitProvider returns an error for the tie-break of any OpaqueID
\* group, resolution returns that error (wrapped, errors.Is finds it) and no added
\* module at all: the groups that needed no tie-break are not returned either.
C15_ProviderErrorFailsResolution ==
    Built =>
        \A providerErr \in CommitProviderErrors :
            /\ Only(buildResult).resolved = <<>>
            /\ \E err \in Only(buildResult).resolveErr : ErrorsIs(err, providerErr)

\* Build failed on the NopCommitProvider's fs.ErrNotExist while another OpaqueID had
\* one added module only.
C15_Witness ==
    /\ Built
    /\ commitProvider.impl = "nop"
    /\ ErrNotExist \in CommitProviderErrors
    /\ \E id \in AddedOpaqueIDs : Len(Group(id)) = 1
    /\ Only(buildResult).resolved = <<>>

(***************************************************************************)
(* The dependency graph: what the claims speak of.                         *)
(***************************************************************************)
\* The dependency relation has a cycle: modules p[1] .. p[n], each depending on the
\* next and the last on the first (n = 1: a module that depends on itself).
HasCycle(edges) ==
    \E n \in 1..Cardinality(GraphModules) :
        \E p \in [1..n -> GraphModules] :
            \A i \in 1..n : <<p[i], p[(i % n) + 1]>> \in edges

\* C16: Build never returns a ModuleSet whose dependency relation has a cycle, of any
\* length: with cyclic input, a module that depends on itself included, Build fails.
C16_NoCycleInModuleSet ==
    \A built \in graphBuild :
        /\ \A ms \in built.value : ~HasCycle(ms.deps)
        /\ HasCycle(depEdges) => built.value = {} /\ built.err # {}

\* Build has failed on A -> B -> C -> A.
C16_Witness ==
    /\ depEdges = {<<"A", "B">>, <<"B", "C">>, <<"C", "A">>}
    /\ \E built \in graphBuild : built.err # {}

(***************************************************************************)
(* ModuleKey construction: what the claims speak of.                       *)
(***************************************************************************)
\* The arguments are not those of a ModuleKey: a nil name, an empty commit ID, both
\* a digest and a getDigest function, or neither.
BadKeyArguments(moduleFullName, commitID, digest, getDigest) ==
    \/ moduleFullName = {}
    \/ commitID = ""
    \/ (digest # {} /\ getDigest # {})
    \/ (digest = {} /\ getDigest = {})

\* C17: a ModuleKey that NewModuleKey or NewModuleKeyForLazyDigest returned without
\* error has a non-nil ModuleFullName, a non-empty commit ID and exactly one of a known
\* digest and a lazy digest function; construction from a nil name, an empty commit
\* ID, both digest sources or neither returns an error and no key.
C17_ModuleKeyWellFormed ==
    /\ \A r \in keyResult :
          /\ (r.value = {}) # (r.err = {})
          /\ \A key \in r.value :
                /\ key.moduleFullName # {}
                /\ key.commitID # ""
                /\ (key.digest # {}) # (key.getDigest # {})
    /\ \A moduleFullName \in KeyFullNames, commitID \in KeyCommitIDs,
          digest \in KeyDigests, getDigest \in GetDigestFuncs :
            LET r == newModuleKey(moduleFullName, commitID, digest, getDigest)
            IN  IF BadKeyArguments(moduleFullName, commitID, digest, getDigest)
                THEN r.value = {} /\ r.err # {}
                ELSE r.err = {} /\ r.value # {}

\* NewModuleKeyForLazyDigest returned a key, and Digest() was called on it.
C17_Witness ==
    /\ \E r \in keyResult : \E key \in r.value : key.getDigest # {} /\ key.digest = {}
    /\ digestCalls >= 1

(***************************************************************************)
(* The module digest: what the claims speak of.                            *)
(***************************************************************************)
\* C18: ModuleDigestB5 gives the same digest (or no digest, both times) for a Module
\* and for the same Module with its DepModules in another order and with other names
\* for itself and its dependencies: the digest depends only on the file digest and on
\* the multiset of the dependencies' digests.
C18_DigestIgnoresOrderAndNames ==
    \A first \in b5First, last \in b5Last : first.result.value = last.result.value

\* The digest of a Module with two dependencies of different digests was computed,
\* then again with the two in the other order and the Module under another name.
C18_Witness ==
    \E first \in b5First, last \in b5Last :
        /\ first.result.value # {}
        /\ Len(first.module.depModules) = 2
        /\ first.module.depModules[1].digest # first.module.depModules[2].digest
        /\ last.module.depModules[1].digest = first.module.depModules[2].digest
        /\ last.module.depModules[2].digest = first.module.depModules[1].digest
        /\ last.module.name # first.module.name

(***************************************************************************)
(* Miscounting providers: what the claims speak of.                        *)
(***************************************************************************)
\* The ModuleDataProvider answered a call of ToModule with another number of
\* ModuleDatas than one, and Build returned a system error.
ToModuleCountChecked ==
    \A i \in DOMAIN mdpCalls :
        LET got == builderGetModuleDatasForModuleKeys(moduleDataProvider, mdpCalls[i])
        IN  (got.err = {} /\ Len(got.moduleDatas) # Len(mdpCalls[i]))
            => \E err \in Only(buildResult).err : err.kind = "syserror"

\* The CommitProvider answered the tie-break with another number of Commits than it
\* was given ModuleKeys, and resolution returned an error.
TieBreakCountChecked ==
    \A i \in DOMAIN cpCalls :
        LET got == GetCommitsForModuleKeys(commitProvider, cpCalls[i])
        IN  (got.err = {} /\ Len(got.commits) # Len(cpCalls[i]))
            => Only(buildResult).resolveErr # {}

\* C20: whenever a provider answers with another number of results than it was given
\* keys, the caller returns an error: ToModule for a ModuleData count other than one,
\* the remote tie-break for a Commit count other than the ModuleKey count.
C20_CountMismatchIsError ==
    Built => ToModuleCountChecked /\ TieBreakCountChecked

(***************************************************************************)
(* The empty build: what the claims speak of.                              *)
(***************************************************************************)
\* C21: with no added module, resolution succeeds with an empty slice that is not
\* nil, the build succeeds with no module, and neither the CommitProvider nor the
\* ModuleDataProvider is called.
C21_EmptyBuildSucceeds ==
    (Built /\ addedModules = <<>>) =>
        /\ Only(buildResult).resolveErr = {}
        /\ Only(buildResult).resolved = <<>>
        /\ ~Only(buildResult).resolvedIsNil
        /\ Only(buildResult).err = {}
        /\ Only(buildResult).modules = <<>>
        /\ cpCalls = <<>>
        /\ mdpCalls = <<>>

\* Build ran with nothing added.
C21_Witness == Built /\ addedModules = <<>> /\ Only(buildResult).err = {}

(***************************************************************************)
(* Input configurations (bufconfig input_config.go): the InputConfig       *)
(* constructors and the conversion from and to the external v2 form.       *)
(***************************************************************************)
\* InputConfigType is declared with iota + 1: 0, the zero value, is no type.
InputConfigTypeModule == 1

InputConfigTypeDirectory == 2

InputConfigTypeGitRepo == 3

InputConfigTypeProtoFile == 4

InputConfigTypeTarball == 5

InputConfigTypeZipArchive == 6

InputConfigTypeBinaryImage == 7

InputConfigTypeJSONImage == 8

InputConfigTypeTextImage == 9

InputConfigTypeYAMLImage == 10

InputConfigTypes ==
    {InputConfigTypeModule, InputConfigTypeDirectory, InputConfigTypeGitRepo,
     InputConfigTypeProtoFile, InputConfigTypeTarball, InputConfigTypeZipArchive,
     InputConfigTypeBinaryImage, InputConfigTypeJSONImage, InputConfigTypeTextImage,
     InputConfigTypeYAMLImage}

\* The option keys, in the order newInputConfigFromExternalV2 collects them.
OptionKeys ==
    <<"compression", "strip_components", "subdir", "branch", "tag", "ref", "depth",
      "recurse_submodules", "include_package_files">>

\* The options each input type accepts.
allowedOptionsForFormat ==
    [format \in InputConfigTypes |->
        CASE format = InputConfigTypeGitRepo ->
                 {"branch", "tag", "ref", "depth", "recurse_submodules", "subdir"}
          [] format = InputConfigTypeModule -> {}
          [] format = InputConfigTypeDirectory -> {}
          [] format = InputConfigTypeProtoFile -> {"include_package_files"}
          [] format = InputConfigTypeTarball -> {"compression", "strip_components", "subdir"}
          [] format = InputConfigTypeZipArchive -> {"strip_components", "subdir"}
          [] format = InputConfigTypeBinaryImage -> {"compression"}
          [] format = InputConfigTypeJSONImage -> {"compression"}
          [] format = InputConfigTypeTextImage -> {"compression"}
          [] format = InputConfigTypeYAMLImage -> {"compression"}]

\* The input type fields of externalInputConfigV2, in the order they are read.
ExternalFields ==
    <<InputConfigTypeModule, InputConfigTypeDirectory, InputConfigTypeProtoFile,
      InputConfigTypeBinaryImage, InputConfigTypeTarball, InputConfigTypeZipArchive,
      InputConfigTypeJSONImage, InputConfigTypeTextImage, InputConfigTypeYAMLImage,
      InputConfigTypeGitRepo>>

\* The struct inputConfig: an option that is not set holds its zero value "".
inputConfig(inputType, location, options) ==
    [inputType |-> inputType, location |-> location, options |-> options]

\* No option is set.
NoOptions == [key \in Range(OptionKeys) |-> ""]

\* The result of a constructor: (InputConfig, error).
InputOk(config) == [config |-> {config}, err |-> {}]

InputError(msg) == [config |-> {}, err |-> {[kind |-> "error", msg |-> msg]}]

InputSysError(msg) == [config |-> {}, err |-> {SysError(msg)}]

\* A constructor that forgets the check of the location.
newInputConfigUnchecked(inputType, location, options) ==
    InputOk(inputConfig(inputType, location, options))

\* NewGitRepoInputConfig .. NewYAMLImageInputConfig: the ten constructors differ in
\* the input type they set and the options they take; each rejects an empty location.
newInputConfig(inputType, location, options) ==
    IF location = "" THEN InputError("empty location")
    ELSE InputOk(inputConfig(inputType, location, options))

\* newInputConfigFromExternalV2 taking any option for any format.
newInputConfigFromExternalV2AnyOption(externalConfig) ==
    LET isSet(field) == externalConfig.kinds[field] # {}
        hasOption(key) == externalConfig.options[key] # {}
        inputTypes == SelectSeq(ExternalFields, isSet)
        location ==
            IF inputTypes = <<>> THEN ""
            ELSE Only(externalConfig.kinds[inputTypes[Len(inputTypes)]])
        config ==
            inputConfig(0, location,
                        [key \in Range(OptionKeys) |->
                            IF hasOption(key) THEN Only(externalConfig.options[key]) ELSE ""])
    IN  IF Len(inputTypes) = 0 THEN InputError("must specify one of")
        ELSE IF Len(inputTypes) > 1 THEN InputError("exactly one of must be specified")
        ELSE InputOk(config)

\* newInputConfigFromExternalV2: the config starts as the zero inputConfig; only its
\* location and options are assigned.
newInputConfigFromExternalV2(externalConfig) ==
    LET isSet(field) == externalConfig.kinds[field] # {}
        hasOption(key) == externalConfig.options[key] # {}
        inputTypes == SelectSeq(ExternalFields, isSet)
        options == SelectSeq(OptionKeys, hasOption)
        location ==
            IF inputTypes = <<>> THEN ""
            ELSE Only(externalConfig.kinds[inputTypes[Len(inputTypes)]])
        config ==
            inputConfig(0, location,
                        [key \in Range(OptionKeys) |->
                            IF hasOption(key) THEN Only(externalConfig.options[key]) ELSE ""])
        format == inputTypes[1]
    IN  IF Len(inputTypes) = 0 THEN InputError("must specify one of")
        ELSE IF Len(inputTypes) > 1 THEN InputError("exactly one of must be specified")
        ELSE IF format \notin DOMAIN allowedOptionsForFormat
             THEN InputSysError("unable to find allowed options for format")
        ELSE IF \E i \in 1..Len(options) : options[i] \notin allowedOptionsForFormat[format]
             THEN InputError("option is not allowed for format")
        ELSE InputOk(config)

\* newExternalInputConfigV2FromInputConfig: the field of the config's Type() receives
\* the Location(); the options that are not empty are copied.
newExternalInputConfigV2FromInputConfig(config) ==
    IF config.inputType \notin InputConfigTypes
    THEN [external |-> {}, err |-> {SysError("unknown input config type")}]
    ELSE [external |->
              {[kinds |-> [field \in InputConfigTypes |->
                              IF field = config.inputType THEN {config.location} ELSE {}],
                options |-> [key \in Range(OptionKeys) |->
                                IF config.options[key] # "" THEN {config.options[key]}
                                ELSE {}]]},
          err |-> {}]

\* The number of input type fields an external config sets.
MaxKinds == 2

\* The number of option fields an external config sets.
MaxOptions == 2

\* The locations given: the empty string and a path.
Locations == {"", "loc"}

\* The external configs given: up to MaxKinds input type fields, all set to one
\* location, and up to MaxOptions option fields.
ExternalConfigs ==
    {[kinds |-> [field \in InputConfigTypes |-> IF field \in set THEN {location} ELSE {}],
      options |-> [key \in Range(OptionKeys) |-> IF key \in keys THEN {"v"} ELSE {}]] :
        set \in {S \in SUBSET InputConfigTypes : Cardinality(S) <= MaxKinds},
        location \in Locations,
        keys \in {K \in SUBSET Range(OptionKeys) : Cardinality(K) <= MaxOptions}}

\* The options a caller passes to a constructor: none, or the ones its type accepts.
ConstructorOptions(inputType) ==
    {NoOptions,
     [key \in Range(OptionKeys) |->
         IF key \in allowedOptionsForFormat[inputType] THEN "v" ELSE ""]}

InputInit ==
    /\ inputCall = {}
    /\ inputBack = {}
    /\ SyncIdle
    /\ LookupIdle
    /\ PathsIdle
    /\ BuilderIdle
    /\ ProviderIdle
    /\ LazyIdle
    /\ KeyIdle
    /\ CacheIdle
    /\ GraphIdle
    /\ B5Idle

\* One of the New*InputConfig constructors is called.
NewInputConfig ==
    /\ inputCall = {}
    /\ \E inputType \in InputConfigTypes, location \in Locations :
        \E options \in ConstructorOptions(inputType) :
            inputCall' = {[op |-> "New", specified |-> {inputType}, external |-> {}]
                             @@ newInputConfig(inputType, location, options)}
    /\ UNCHANGED inputBack
    /\ UNCHANGED <<builderVars, providerVars, lazyVars, cacheVars, keyVars, graphVars, b5Vars, syncVars, lookupVars, pathVars>>

\* newInputConfigFromExternalV2 is called on an external config.
NewInputConfigFromExternalV2 ==
    /\ inputCall = {}
    /\ \E externalConfig \in ExternalConfigs :
        inputCall' = {[op |-> "FromExternalV2",
                       specified |-> {field \in InputConfigTypes :
                                         externalConfig.kinds[field] # {}},
                       external |-> {externalConfig}]
                         @@ newInputConfigFromExternalV2(externalConfig)}
    /\ UNCHANGED inputBack
    /\ UNCHANGED <<builderVars, providerVars, lazyVars, cacheVars, keyVars, graphVars, b5Vars, syncVars, lookupVars, pathVars>>

\* The config that was returned is written back to its external form.
NewExternalInputConfigV2FromInputConfig ==
    /\ inputBack = {}
    /\ \E call \in inputCall :
        /\ call.err = {}
        /\ inputBack' = {newExternalInputConfigV2FromInputConfig(Only(call.config))}
    /\ UNCHANGED inputCall
    /\ UNCHANGED <<builderVars, providerVars, lazyVars, cacheVars, keyVars, graphVars, b5Vars, syncVars, lookupVars, pathVars>>

InputNext ==
    \/ NewInputConfig
    \/ NewInputConfigFromExternalV2
    \/ NewExternalInputConfigV2FromInputConfig

SpecInput == InputInit /\ [][InputNext]_vars

\* C22: every InputConfig returned without error has a Type() that is not the zero
\* value and is the input kind that was specified, and a Location() that is not empty.
C22_ReturnedConfigHasTypeAndLocation ==
    \A call \in inputCall :
        call.err = {} =>
            /\ Only(call.config).inputType # 0
            /\ call.specified = {Only(call.config).inputType}
            /\ Only(call.config).location # ""

\* The GetModuleDatasForModuleKeys calls made on the providers that talk to a registry.
RegistryCalls ==
    {c \in providerCall : c.op = "GetModuleDatasForModuleKeys" /\ c.impl \in {"api", "perKey"}}

\* The registry hosts.
Registries == {n.registry : n \in ModuleFullNames}

\* The requests for the contents of commits: Download of the bufpkg provider,
\* GetCommitNodes of the per-key provider.
ContentRequests(reg) ==
    SelectSeq(requests, LAMBDA q : q.rpc \in {"Download", "GetCommitNodes"} /\ q.registry = reg)

\* C23: a GetModuleDatasForModuleKeys call sends at most one content request to each
\* registry host, exactly one to each host of its keys when it succeeds, and no
\* request carries more than 250 items.
C23_OneBatchedRequestPerRegistry ==
    \A c \in RegistryCalls :
        /\ \A reg \in Registries : Len(ContentRequests(reg)) <= 1
        /\ c.outcome.kind = "return" /\ c.outcome.err = {} =>
               \A i \in DOMAIN c.moduleKeys :
                   Len(ContentRequests(c.moduleKeys[i].moduleFullName.registry)) = 1
        /\ \A j \in DOMAIN requests : Len(requests[j].items) <= MaxBatchSize

\* The requests that download file content or blobs, or look dependency keys up.
FetchRequests ==
    SelectSeq(requests, LAMBDA q : q.rpc \in {"Download", "GetBlobs", "GetModules", "GetOwners"})

\* C26: GetModuleDatasForModuleKeys sends no request for file content, blobs or
\* dependency keys; such a request is sent only once the bucket or the dependency
\* list of a returned ModuleData has been read.
C26_FetchOnlyOnAccess ==
    \A c \in RegistryCalls : accessed = {} => FetchRequests = <<>>

\* The CommitProvider calls made for the OpaqueID: the calls that carry a key of it.
CommitCallsFor(id) ==
    SelectSeq(cpCalls, LAMBDA keys : \E i \in DOMAIN keys :
                                         ModuleFullNameString(keys[i].moduleFullName) = id)

\* The distinct commit IDs of the candidates of the OpaqueID.
CandidateCommitIDs(id) ==
    {RemoteCommitID(Candidates(id)[i]) : i \in DOMAIN Candidates(id)}

\* C24: CommitProvider.GetCommitsForModuleKeys is called for an OpaqueID only when
\* its candidates are all remote with two or more distinct commit IDs, at most once
\* (once when resolution succeeds), with exactly one key per distinct commit ID;
\* every call is made for one such OpaqueID.
C24_CommitProviderCalledOnlyForContested ==
    Built =>
        /\ \A id \in AddedOpaqueIDs :
            IF RemoteContested(id)
            THEN /\ Len(CommitCallsFor(id)) <= 1
                 /\ Resolved => Len(CommitCallsFor(id)) = 1
                 /\ \A j \in DOMAIN CommitCallsFor(id) :
                       LET keys == CommitCallsFor(id)[j]
                       IN  /\ Len(keys) = Cardinality(CandidateCommitIDs(id))
                           /\ {keys[i].commitID : i \in DOMAIN keys} = CandidateCommitIDs(id)
                           /\ \A i \in DOMAIN keys :
                                 ModuleFullNameString(keys[i].moduleFullName) = id
            ELSE CommitCallsFor(id) = <<>>
        /\ \A j \in DOMAIN cpCalls : \E id \in AddedOpaqueIDs : CommitCallsFor(id) = <<cpCalls[j]>>

\* A build whose three remote candidates of one OpaqueID have two distinct commit
\* IDs: the provider was asked once, about two keys.
C24_Witness ==
    /\ Resolved
    /\ Len(cpCalls) = 1
    /\ Len(cpCalls[1]) = 2
    /\ \E id \in AddedOpaqueIDs :
          /\ RemoteContested(id)
          /\ Len(Candidates(id)) = 3
          /\ Len(CommitCallsFor(id)) = 1

\* The survivors of resolution that are remote.
RemoteSurvivors == SelectSeq(ResolvedAddedModules, LAMBDA a : ~IsLocal(a))

\* C25: materialization makes no ModuleDataProvider call for a local survivor and
\* at most one call in all, which carries the keys of all remote survivors.
C25_OneBatchedModuleDataCall ==
    Resolved =>
        /\ Len(mdpCalls) <= 1
        /\ RemoteSurvivors = <<>> => mdpCalls = <<>>
        /\ \A j \in DOMAIN mdpCalls :
              Range(mdpCalls[j]) = {Only(RemoteSurvivors[i].remoteModuleKey) : i \in DOMAIN RemoteSurvivors}

\* The ModuleData the provider answers the key of a remote survivor with.
AnswerFor(a) ==
    builderGetModuleDatasForModuleKeys(moduleDataProvider, <<Only(a.remoteModuleKey)>>).moduleDatas[1]

\* The answer names the key that was asked for.
AnswerMatches(a) ==
    /\ AnswerFor(a).moduleKey.moduleFullName = Only(a.remoteModuleKey).moduleFullName
    /\ AnswerFor(a).moduleKey.commitID = Only(a.remoteModuleKey).commitID
    /\ AnswerFor(a).digest = BuilderKeyDigest

\* C27: a build whose ModuleDataProvider answers a remote survivor with a ModuleKey
\* of another full name, commit ID or digest fails; a build that succeeds gives each
\* remote survivor a module with the requested full name, commit ID and target flag.
C27_AnswerMustMatchRequestedKey ==
    Resolved =>
        /\ (\E i \in DOMAIN RemoteSurvivors : ~AnswerMatches(RemoteSurvivors[i]))
               => Only(buildResult).err # {}
        /\ Only(buildResult).err = {} =>
               \A i \in DOMAIN ResolvedAddedModules :
                   LET a == ResolvedAddedModules[i]
                       module == Only(buildResult).modules[i]
                   IN  ~IsLocal(a) =>
                           /\ module.moduleFullName = {Only(a.remoteModuleKey).moduleFullName}
                           /\ module.commitID = {Only(a.remoteModuleKey).commitID}
                           /\ module.isTarget = a.isTarget

\* The results that say that setModuleSet was never called.
NeverCalledResults == {r \in returned : r.result = Error(errSetModuleSetNeverCalled)}

\* The first call of setModuleSet succeeded and every later call returned
\* errSetModuleSetAlreadyCalled; before the first call every lookup returned
\* errSetModuleSetNeverCalled and both maps are empty.
SetOnceState ==
    /\ \A i \in DOMAIN setModuleSetErrs :
          setModuleSetErrs[i] = IF i = 1 THEN {} ELSE {errSetModuleSetAlreadyCalled}
    /\ setModuleSetCalled <=> setModuleSetErrs # <<>>
    /\ ~setModuleSetCalled =>
          /\ returned = NeverCalledResults
          /\ filePathToModule = EmptyCache
          /\ filePathToImports = EmptyCache

\* Once set, the ModuleSet stays as it is, and no lookup says it was never set.
SetOnceStep ==
    setModuleSetCalled =>
        /\ moduleSet' = moduleSet
        /\ setModuleSetCalled'
        /\ \A r \in returned' \ returned : r.result # Error(errSetModuleSetNeverCalled)

\* C28: setModuleSet succeeds exactly once: a later call returns
\* errSetModuleSetAlreadyCalled and leaves the stored ModuleSet unchanged; a lookup
\* made before any setModuleSet returns errSetModuleSetNeverCalled and leaves both
\* cache maps empty.
C28_SetModuleSetOnce == []SetOnceState /\ [][SetOnceStep]_vars

\* A lookup was refused, the ModuleSet was set, a second setModuleSet was refused and
\* a lookup was then answered from the ModuleSet that was set first.
C28_Witness ==
    /\ setModuleSetErrs = <<{}, {errSetModuleSetAlreadyCalled}>>
    /\ NeverCalledResults # {}
    /\ returned # NeverCalledResults
    /\ filePathToModule # EmptyCache

\* Whoever holds the lock is in its locked section, not waiting for the lock.
HolderNotWaiting == \A t \in lock : callers[t].pc = "Locked"

\* C29: no cache call waits for the lock while it holds it, and every call that has
\* begun returns, whatever calls run beside it.
C29_NoSelfDeadlock ==
    /\ []HolderNotWaiting
    /\ \A t \in Callers : (callers[t].pc # "idle") ~> (callers[t].pc = "idle")

\* A caller computes imports under the lock while another caller waits for the lock.
C29_Witness ==
    \E t, u \in Callers :
        /\ callers[t].pc = "Locked"
        /\ callers[t].op = "GetImportsForFilePath"
        /\ callers[t].filePath \notin DOMAIN filePathToModule
        /\ callers[u].pc = "Lock"

(***************************************************************************)
(* The sync handler (buf/bufsync/bufsyncapi/sync_handler.go): one call of  *)
(* SyncModuleBranch, which pushes the commits of a branch to the registry  *)
(* one by one, creating the repository when it is missing.                 *)
(***************************************************************************)

\* The most commits a branch has to sync.
MaxCommits == 2

\* The Git hashes of the commits.
Hashes == {<<"h", i>> : i \in 1..MaxCommits}

\* connect.CodeOf of what the registry answers to SyncGitCommit; "ok" is no error.
PushCodes == {"ok", "not_found", "unavailable"}

\* connect.CodeOf of what the registry answers to CreateRepositoryByFullName.
CreateCodes == {"ok", "already_exists", "unavailable"}

\* The values of registryv1alpha1.Visibility a handler is built with.
Visibilities == {"VISIBILITY_PUBLIC", "VISIBILITY_PRIVATE"}

\* An error: the prefixes fmt.Errorf wrapped it in, outermost first, and the
\* connect code of the innermost error, which %w keeps.
SyncError(wraps, code) == [wraps |-> wraps, code |-> code]

\* A call of h.push or h.create for the commit with this hash, and how it ended.
SyncCall(op, hash, code) == [op |-> op, hash |-> hash, code |-> code]

\* The GitSyncPoint the registry answers a push with.
GitSyncPoint(hash) == [bsrCommitName |-> <<"bsr", hash>>]

\* The branches SyncModuleBranch is called with: commits with distinct hashes, any
\* of which may have an unreadable bucket.
CommitLists ==
    UNION {{commits \in [1..n -> [hash : Hashes, bucketErr : BOOLEAN]] :
                \A i, j \in 1..n : commits[i].hash = commits[j].hash => i = j}
           : n \in 0..MaxCommits}

\* The commit SyncModuleBranch works on.
moduleCommit == commitsToSync[syncPos]

\* SyncModuleBranch returns.
SyncReturn(err) ==
    /\ syncPc' = "Returned"
    /\ syncReturned' = {[err |-> err]}

\* The head of the loop over CommitsToSync: the next commit, or return nil.
SyncLoopHead(pos) ==
    /\ syncPos' = pos
    /\ syncPoint' = {}
    /\ IF pos > Len(commitsToSync)
       THEN SyncReturn({})
       ELSE syncPc' = "Bucket" /\ UNCHANGED syncReturned

\* pushOrCreate returns an error to SyncModuleBranch, which returns it wrapped.
PushOrCreateFails(wraps, code) ==
    SyncReturn({SyncError(<<"failed to push or create">> \o wraps, code)})

\* pushOrCreate returns a sync point to SyncModuleBranch, which goes on to write
\* its line to stderr.
PushOrCreateReturns(hash) ==
    /\ syncPc' = "Stderr"
    /\ syncPoint' = {GitSyncPoint(hash)}
    /\ UNCHANGED syncReturned

\* The error h.create returns for what the registry answered: AlreadyExists
\* becomes an internal error, any other error is returned as it is.
createErr(code) ==
    IF code = "already_exists"
    THEN SyncError(<<"expected repository to be missing but found the repository to already exist">>,
                   "internal")
    ELSE SyncError(<<>>, code)

SyncInit ==
    /\ createWithVisibility \in {{}} \cup {{v} : v \in Visibilities}
    /\ commitsToSync \in CommitLists
    /\ syncPos = 1
    /\ syncPc = "idle"
    /\ syncPoint = {}
    /\ syncCalls = <<>>
    /\ syncStderr = <<>>
    /\ syncReturned = {}
    /\ InputIdle
    /\ LookupIdle
    /\ PathsIdle
    /\ BuilderIdle
    /\ ProviderIdle
    /\ LazyIdle
    /\ KeyIdle
    /\ CacheIdle
    /\ GraphIdle
    /\ B5Idle

\* SyncModuleBranch is called and enters its loop.
SyncModuleBranch ==
    /\ syncPc = "idle"
    /\ SyncLoopHead(1)
    /\ UNCHANGED <<createWithVisibility, commitsToSync, syncCalls, syncStderr>>
    /\ UNCHANGED <<builderVars, providerVars, lazyVars, cacheVars, keyVars, graphVars, b5Vars, inputVars, lookupVars, pathVars>>

\* SyncModuleBranch passing over a commit whose bucket cannot be read.
SyncBucketSkipping ==
    /\ syncPc = "Bucket"
    /\ IF moduleCommit.bucketErr
       THEN SyncLoopHead(syncPos + 1)
       ELSE syncPc' = "Push" /\ UNCHANGED <<syncReturned, syncPos, syncPoint>>
    /\ UNCHANGED <<createWithVisibility, commitsToSync, syncCalls, syncStderr>>
    /\ UNCHANGED <<builderVars, providerVars, lazyVars, cacheVars, keyVars, graphVars, b5Vars, inputVars, lookupVars, pathVars>>

\* moduleCommit.Bucket: the commit's files are read, or the call ends with the error.
SyncBucket ==
    /\ syncPc = "Bucket"
    /\ IF moduleCommit.bucketErr
       THEN SyncReturn({SyncError(<<"read bucket for commit">>, "unknown")})
       ELSE syncPc' = "Push" /\ UNCHANGED syncReturned
    /\ UNCHANGED <<createWithVisibility, commitsToSync, syncPos, syncPoint, syncCalls, syncStderr>>
    /\ UNCHANGED <<builderVars, providerVars, lazyVars, cacheVars, keyVars, graphVars, b5Vars, inputVars, lookupVars, pathVars>>

\* pushOrCreate with every failed push answered by a create.
PushOrCreateCreatingOnAnyError ==
    /\ syncPc = "Push"
    /\ \E code \in PushCodes :
          /\ syncCalls' = Append(syncCalls, SyncCall("push", moduleCommit.hash, code))
          /\ IF code # "ok"
             THEN syncPc' = "Create" /\ UNCHANGED <<syncPoint, syncReturned>>
             ELSE PushOrCreateReturns(moduleCommit.hash)
    /\ UNCHANGED <<createWithVisibility, commitsToSync, syncPos, syncStderr>>
    /\ UNCHANGED <<builderVars, providerVars, lazyVars, cacheVars, keyVars, graphVars, b5Vars, inputVars, lookupVars, pathVars>>

\* pushOrCreate, up to the answer to its first push: a failed push is followed by a
\* create if the handler creates repositories and the code is NotFound, and is
\* returned as the error otherwise.
PushOrCreate ==
    /\ syncPc = "Push"
    /\ \E code \in PushCodes :
          /\ syncCalls' = Append(syncCalls, SyncCall("push", moduleCommit.hash, code))
          /\ IF code # "ok"
             THEN IF createWithVisibility # {} /\ code = "not_found"
                  THEN syncPc' = "Create" /\ UNCHANGED <<syncPoint, syncReturned>>
                  ELSE PushOrCreateFails(<<"push">>, code) /\ UNCHANGED syncPoint
             ELSE PushOrCreateReturns(moduleCommit.hash)
    /\ UNCHANGED <<createWithVisibility, commitsToSync, syncPos, syncStderr>>
    /\ UNCHANGED <<builderVars, providerVars, lazyVars, cacheVars, keyVars, graphVars, b5Vars, inputVars, lookupVars, pathVars>>

\* pushOrCreate, the create: a failed create ends pushOrCreate with the error, a
\* successful one is followed by the second push.
PushOrCreateCreate ==
    /\ syncPc = "Create"
    /\ \E code \in CreateCodes :
          /\ syncCalls' = Append(syncCalls, SyncCall("create", moduleCommit.hash, code))
          /\ IF code # "ok"
             THEN PushOrCreateFails(<<"create repo">> \o createErr(code).wraps, createErr(code).code)
             ELSE syncPc' = "RetryPush" /\ UNCHANGED syncReturned
    /\ UNCHANGED <<createWithVisibility, commitsToSync, syncPos, syncPoint, syncStderr>>
    /\ UNCHANGED <<builderVars, providerVars, lazyVars, cacheVars, keyVars, graphVars, b5Vars, inputVars, lookupVars, pathVars>>

\* pushOrCreate, the second push: whatever it answers is what pushOrCreate returns.
PushOrCreateRetryPush ==
    /\ syncPc = "RetryPush"
    /\ \E code \in PushCodes :
          /\ syncCalls' = Append(syncCalls, SyncCall("push", moduleCommit.hash, code))
          /\ IF code # "ok"
             THEN PushOrCreateFails(<<>>, code) /\ UNCHANGED syncPoint
             ELSE PushOrCreateReturns(moduleCommit.hash)
    /\ UNCHANGED <<createWithVisibility, commitsToSync, syncPos, syncStderr>>
    /\ UNCHANGED <<builderVars, providerVars, lazyVars, cacheVars, keyVars, graphVars, b5Vars, inputVars, lookupVars, pathVars>>

\* The sync line of the pushed commit is written to stderr, and the loop goes on;
\* a failed write ends the call with the error.
SyncStderr ==
    /\ syncPc = "Stderr"
    /\ \E written \in BOOLEAN :
          IF written
          THEN /\ syncStderr' = Append(syncStderr, moduleCommit.hash)
               /\ SyncLoopHead(syncPos + 1)
          ELSE /\ SyncReturn({SyncError(<<>>, "unknown")})
               /\ UNCHANGED <<syncStderr, syncPos, syncPoint>>
    /\ UNCHANGED <<createWithVisibility, commitsToSync, syncCalls>>
    /\ UNCHANGED <<builderVars, providerVars, lazyVars, cacheVars, keyVars, graphVars, b5Vars, inputVars, lookupVars, pathVars>>

SyncNext ==
    \/ SyncModuleBranch
    \/ SyncBucket
    \/ PushOrCreate
    \/ PushOrCreateCreate
    \/ PushOrCreateRetryPush
    \/ SyncStderr

SpecSync == SyncInit /\ [][SyncNext]_vars

\* The calls of push and create made for the commit with this hash, in order.
CallsFor(hash) == SelectSeq(syncCalls, LAMBDA c : c.hash = hash)

\* pushOrCreate has returned for the commit with this hash.
PushOrCreateDone(hash) ==
    /\ CallsFor(hash) # <<>>
    /\ \/ syncPc \in {"Stderr", "Returned"}
       \/ moduleCommit.hash # hash

\* The ways pushOrCreate can go for one commit, as the codes of its calls.
PushOrCreateRuns(hash) ==
    LET calls == CallsFor(hash)
        n == Len(calls)
        ops == [i \in 1..n |-> calls[i].op]
    IN  /\ ops \in {<<>>, <<"push">>, <<"push", "create">>, <<"push", "create", "push">>}
        /\ n >= 2 => createWithVisibility # {} /\ calls[1].code = "not_found"
        /\ n = 3 => calls[2].code = "ok"
        /\ PushOrCreateDone(hash) =>
              /\ n = 2 => /\ calls[2].code # "ok"
                          /\ syncPc = "Returned"
                          /\ Only(syncReturned).err # {}
                          /\ calls[2].code = "already_exists" =>
                                Only(Only(syncReturned).err).code = "internal"

\* C30: for one commit, pushOrCreate creates the repository only after a push that
\* failed with NotFound and only if createWithVisibility is set; after a successful
\* create it pushes once more; so there are at most two pushes and one create per
\* commit, and after a failed create (AlreadyExists is reported as an internal
\* error) there is no second push and an error is returned.
C30_CreateOnlyAfterNotFound == \A hash \in Hashes : PushOrCreateRuns(hash)

\* A push failed with NotFound, the repository was created, and the second push
\* succeeded.
C30_Witness ==
    \E hash \in Hashes :
        /\ createWithVisibility # {}
        /\ [i \in 1..Len(CallsFor(hash)) |-> <<CallsFor(hash)[i].op, CallsFor(hash)[i].code>>]
              = << <<"push", "not_found">>, <<"create", "ok">>, <<"push", "ok">> >>
        /\ syncStderr # <<>>

\* The commit at this index was pushed: the last call made for it is a push that
\* the registry accepted.
Pushed(i) ==
    LET calls == CallsFor(commitsToSync[i].hash)
    IN  calls # <<>> /\ calls[Len(calls)] = SyncCall("push", commitsToSync[i].hash, "ok")

\* The index in commitsToSync of the commit with this hash.
CommitIndex(hash) == CHOOSE i \in DOMAIN commitsToSync : commitsToSync[i].hash = hash

\* The calls were made commit by commit in the order of commitsToSync, each commit
\* after all earlier ones were pushed and had their line written.
PushedInOrder ==
    /\ \A k \in DOMAIN syncCalls :
          /\ \E i \in DOMAIN commitsToSync : commitsToSync[i].hash = syncCalls[k].hash
          /\ ~commitsToSync[CommitIndex(syncCalls[k].hash)].bucketErr
          /\ CommitIndex(syncCalls[k].hash) <= syncPos
          /\ \A l \in 1..(k - 1) : CommitIndex(syncCalls[l].hash) <= CommitIndex(syncCalls[k].hash)
    /\ \A i \in DOMAIN commitsToSync : i < syncPos => Pushed(i)

\* The lines on stderr are those of the pushed commits before the current one, in
\* order, and possibly not yet that of the current one.
StderrOnlyForPushed ==
    /\ \A n \in DOMAIN syncStderr : syncStderr[n] = commitsToSync[n].hash /\ Pushed(n)
    /\ Len(syncStderr) = syncPos - 1

\* A commit whose bucket cannot be read, or whose push or create failed, ends the
\* call with an error.
StopsAtFirstFailure ==
    \A i \in DOMAIN commitsToSync :
        LET calls == CallsFor(commitsToSync[i].hash)
            failed == \/ i = syncPos /\ syncPc \notin {"idle", "Bucket"} /\ commitsToSync[i].bucketErr
                      \/ calls # <<>> /\ syncPc \notin {"Create", "RetryPush"}
                            /\ calls[Len(calls)].code # "ok"
        IN  failed => /\ syncPc = "Returned"
                      /\ syncPos = i
                      /\ Only(syncReturned).err # {}

\* C31: SyncModuleBranch pushes the commits of CommitsToSync in order and stops at
\* the first commit whose bucket read or push fails, returning the error: no later
\* commit is pushed, and only pushed commits have a sync line on stderr.
C31_InOrderStopAtFirstFailure ==
    /\ PushedInOrder
    /\ StderrOnlyForPushed
    /\ StopsAtFirstFailure

\* The first commit was pushed and its line written, the push of the second failed
\* and the call returned the error.
C31_Witness ==
    /\ Len(commitsToSync) >= 2
    /\ syncStderr = <<commitsToSync[1].hash>>
    /\ syncPc = "Returned"
    /\ Only(syncReturned).err # {}
    /\ CallsFor(commitsToSync[2].hash) # <<>>

(***************************************************************************)
(* The sync handler's lookups on the registry (sync_handler.go):           *)
(* IsReleaseBranch, IsProtectedBranch, IsGitCommitSyncedToBranch,          *)
(* IsBranchSynced and GetBranchHead, with the handler's two caches.        *)
(***************************************************************************)

\* The most pages the registry's branch listing has.
MaxPages == 2

\* The branch names asked about and known to the registry.
BranchNames == {"main", "dev"}

\* h.repo.DefaultBranch(): the default branch of the Git repository.
GitDefaultBranch == "main"

\* The repositories a module name can have on the registry.
Repositories(name) == {[id |-> <<"id", name>>, defaultBranch |-> b] : b \in BranchNames}

\* The branch listings of the registry: at least one page, the last one with an
\* empty NextPageToken.
PageLists == UNION {[1..n -> SUBSET BranchNames] : n \in 1..MaxPages}

\* res.Msg.NextPageToken of a page: empty on the last page.
NextPageToken(pages, page) == IF page = Len(pages) THEN <<>> ELSE <<page + 1>>

\* The page the registry answers a PageToken with: the first one for the empty token.
PageOfToken(token) == IF token = <<>> THEN 1 ELSE token[1]

\* What the registry answers to GetRepositoryBranch.
BranchAnswers ==
    {[code |-> "not_found", lastUpdateGitCommitHash |-> "", latestCommitName |-> ""],
     [code |-> "unavailable", lastUpdateGitCommitHash |-> "", latestCommitName |-> ""],
     [code |-> "ok", lastUpdateGitCommitHash |-> "", latestCommitName |-> ""],
     [code |-> "ok", lastUpdateGitCommitHash |-> "h", latestCommitName |-> "c"]}

\* Whether the registry is unavailable matters to a call only if the cache has no
\* entry for the name.
Unavailable(cache, name) == IF cache[name] = {} THEN BOOLEAN ELSE {FALSE}

\* connect.CodeOf of the registry's answer to GetRepositoryByFullName: the registry
\* may be unavailable, and has the repository or not.
RepositoryCode(name, unavailable) ==
    IF unavailable THEN "unavailable"
    ELSE IF bsrRepositories[name] = {} THEN "not_found" ELSE "ok"

\* What a lookup returned, and the pages it requested.
Lookup(op, name, branchName, value, head, err, asked) ==
    [op |-> op, name |-> name, branchName |-> branchName, value |-> value, head |-> head,
     err |-> err, requests |-> asked]

\* IsReleaseBranch: the cache after the call, the result and whether the registry
\* was asked and answered NotFound.
isReleaseBranch(cache, name, branchName, code) ==
    IF cache[name] = {}
    THEN IF code # "ok"
         THEN [cache |-> IF code = "not_found" THEN [cache EXCEPT ![name] = {""}] ELSE cache,
               value |-> FALSE,
               err |-> {SyncError(<<"load repository">>, code)},
               notFound |-> IF code = "not_found" THEN 1 ELSE 0]
         ELSE [cache |-> [cache EXCEPT ![name] = {Only(bsrRepositories[name]).defaultBranch}],
               value |-> branchName = Only(bsrRepositories[name]).defaultBranch,
               err |-> {},
               notFound |-> 0]
    ELSE [cache |-> cache, value |-> branchName = Only(cache[name]), err |-> {}, notFound |-> 0]

\* getRepositoryID: the cache after the call, the ID and the error.
getRepositoryID(cache, name, code) ==
    IF cache[name] # {}
    THEN [cache |-> cache, id |-> cache[name], err |-> {}]
    ELSE IF code = "not_found"
    THEN [cache |-> cache, id |-> {}, err |-> {SyncError(<<"repository for module does not exist">>, "unknown")}]
    ELSE IF code # "ok"
    THEN [cache |-> cache, id |-> {}, err |-> {SyncError(<<"get repository for module identity">>, code)}]
    ELSE [cache |-> [cache EXCEPT ![name] = {Only(bsrRepositories[name]).id}],
          id |-> {Only(bsrRepositories[name]).id},
          err |-> {}]

\* The listing loop asking for every page whatever the earlier pages held.
RECURSIVE listLoopWholeListing(_, _, _, _, _, _)
listLoopWholeListing(pages, nextPageToken, branchName, failAt, failCode, asked) ==
    LET page == PageOfToken(nextPageToken)
        answered(code) == Append(asked, [page |-> page, code |-> code])
    IN  IF failAt = page
        THEN IF failCode = "not_found"
             THEN [value |-> FALSE, err |-> {}, requests |-> answered(failCode)]
             ELSE [value |-> FALSE,
                   err |-> {SyncError(<<"list repository branch by reference">>, failCode)},
                   requests |-> answered(failCode)]
        ELSE IF NextPageToken(pages, page) = <<>>
        THEN [value |-> branchName \in pages[page], err |-> {}, requests |-> answered("ok")]
        ELSE LET rest == listLoopWholeListing(pages, NextPageToken(pages, page), branchName,
                                              failAt, failCode, answered("ok"))
             IN  [rest EXCEPT !.value = @ \/ (rest.err = {} /\ branchName \in pages[page])]

\* The loop of IsGitCommitSyncedToBranch over the pages of
\* ListRepositoryBranchesByReference, from this page token on: the result and the
\* pages requested. The request for page failAt, if any, fails with failCode.
RECURSIVE listLoop(_, _, _, _, _, _)
listLoop(pages, nextPageToken, branchName, failAt, failCode, asked) ==
    LET page == PageOfToken(nextPageToken)
        answered(code) == Append(asked, [page |-> page, code |-> code])
    IN  IF failAt = page
        THEN IF failCode = "not_found"
             THEN [value |-> FALSE, err |-> {}, requests |-> answered(failCode)]
             ELSE [value |-> FALSE,
                   err |-> {SyncError(<<"list repository branch by reference">>, failCode)},
                   requests |-> answered(failCode)]
        ELSE IF branchName \in pages[page]
        THEN [value |-> TRUE, err |-> {}, requests |-> answered("ok")]
        ELSE IF NextPageToken(pages, page) = <<>>
        THEN [value |-> FALSE, err |-> {}, requests |-> answered("ok")]
        ELSE listLoop(pages, NextPageToken(pages, page), branchName, failAt, failCode, answered("ok"))

\* The registries the handler can face: each module name with or without a
\* repository.
RegistryStates ==
    {repositories \in [SyncModuleNames -> {{}} \cup {{r} : r \in UNION {Repositories(n) : n \in SyncModuleNames}}] :
        \A n \in SyncModuleNames : repositories[n] \subseteq Repositories(n)}

\* A new handler, before the release branch lookups: any registry.
ReleaseInit ==
    /\ bsrRepositories \in RegistryStates
    /\ bsrPages = <<>>
    /\ moduleFullNameToRepositoryIDCache = [name \in SyncModuleNames |-> {}]
    /\ moduleFullNameToDefaultBranchCache = [name \in SyncModuleNames |-> {}]
    /\ releaseLookups = [name \in SyncModuleNames |-> 0]
    /\ lookupReturned = {}
    /\ InputIdle
    /\ SyncIdle
    /\ PathsIdle
    /\ BuilderIdle
    /\ ProviderIdle
    /\ LazyIdle
    /\ KeyIdle
    /\ CacheIdle
    /\ GraphIdle
    /\ B5Idle

\* A new handler, before the branch lookups: any registry whose repositories have
\* the Git default branch as release branch, and any listing.
BranchInit ==
    /\ bsrRepositories \in
          {repositories \in RegistryStates :
              \A n \in SyncModuleNames : \A r \in repositories[n] : r.defaultBranch = GitDefaultBranch}
    /\ bsrPages \in PageLists
    /\ moduleFullNameToRepositoryIDCache = [name \in SyncModuleNames |-> {}]
    /\ moduleFullNameToDefaultBranchCache = [name \in SyncModuleNames |-> {}]
    /\ releaseLookups = [name \in SyncModuleNames |-> 0]
    /\ lookupReturned = {}
    /\ InputIdle
    /\ SyncIdle
    /\ PathsIdle
    /\ BuilderIdle
    /\ ProviderIdle
    /\ LazyIdle
    /\ KeyIdle
    /\ CacheIdle
    /\ GraphIdle
    /\ B5Idle

\* A call of IsReleaseBranch.
IsReleaseBranch ==
    /\ \E name \in SyncModuleNames, branchName \in BranchNames :
       \E unavailable \in Unavailable(moduleFullNameToDefaultBranchCache, name) :
          LET got == isReleaseBranch(moduleFullNameToDefaultBranchCache, name, branchName,
                                     RepositoryCode(name, unavailable))
          IN  /\ moduleFullNameToDefaultBranchCache' = got.cache
              /\ releaseLookups' = [releaseLookups EXCEPT ![name] = @ + got.notFound]
              /\ lookupReturned' = {Lookup("IsReleaseBranch", name, branchName, got.value, {}, got.err, <<>>)}
    /\ UNCHANGED <<bsrRepositories, bsrPages, moduleFullNameToRepositoryIDCache>>
    /\ UNCHANGED <<builderVars, providerVars, lazyVars, cacheVars, keyVars, graphVars, b5Vars, inputVars, syncVars, pathVars>>

\* A call of IsProtectedBranch: the Git default branch is protected, any other
\* branch if it is the release branch.
IsProtectedBranch ==
    /\ \E name \in SyncModuleNames, branchName \in BranchNames :
          IF branchName = GitDefaultBranch
          THEN /\ lookupReturned' = {Lookup("IsProtectedBranch", name, branchName, TRUE, {}, {}, <<>>)}
               /\ UNCHANGED <<moduleFullNameToDefaultBranchCache, releaseLookups>>
          ELSE \E unavailable \in Unavailable(moduleFullNameToDefaultBranchCache, name) :
               LET got == isReleaseBranch(moduleFullNameToDefaultBranchCache, name, branchName,
                                          RepositoryCode(name, unavailable))
               IN  /\ moduleFullNameToDefaultBranchCache' = got.cache
                   /\ releaseLookups' = [releaseLookups EXCEPT ![name] = @ + got.notFound]
                   /\ lookupReturned' = {Lookup("IsProtectedBranch", name, branchName, got.value, {}, got.err, <<>>)}
    /\ UNCHANGED <<bsrRepositories, bsrPages, moduleFullNameToRepositoryIDCache>>
    /\ UNCHANGED <<builderVars, providerVars, lazyVars, cacheVars, keyVars, graphVars, b5Vars, inputVars, syncVars, pathVars>>

\* The requests of the listing that can fail, and how: none, or the request for
\* one page with NotFound or with the registry unavailable.
ListFailures(pages) ==
    {[at |-> 0, code |-> "ok"]}
        \cup {[at |-> page, code |-> code] : page \in DOMAIN pages, code \in {"not_found", "unavailable"}}

\* A call of IsGitCommitSyncedToBranch: the repository ID, then the pages of the
\* branch listing for the commit.
IsGitCommitSyncedToBranch ==
    /\ \E name \in SyncModuleNames, branchName \in BranchNames :
       \E unavailable \in Unavailable(moduleFullNameToRepositoryIDCache, name) :
          LET repositoryID == getRepositoryID(moduleFullNameToRepositoryIDCache, name,
                                              RepositoryCode(name, unavailable))
          IN  /\ moduleFullNameToRepositoryIDCache' = repositoryID.cache
              /\ IF repositoryID.err # {}
                 THEN lookupReturned' = {Lookup("IsGitCommitSyncedToBranch", name, branchName, FALSE, {},
                                                repositoryID.err, <<>>)}
                 ELSE \E fail \in ListFailures(bsrPages) :
                      LET listed == listLoop(bsrPages, <<>>, branchName, fail.at, fail.code, <<>>)
                      IN  lookupReturned' = {Lookup("IsGitCommitSyncedToBranch", name, branchName,
                                                    listed.value, {}, listed.err, listed.requests)}
    /\ UNCHANGED <<bsrRepositories, bsrPages, moduleFullNameToDefaultBranchCache, releaseLookups>>
    /\ UNCHANGED <<builderVars, providerVars, lazyVars, cacheVars, keyVars, graphVars, b5Vars, inputVars, syncVars, pathVars>>

\* A call of IsBranchSynced: the repository ID, then the branch.
IsBranchSynced ==
    /\ \E name \in SyncModuleNames, branchName \in BranchNames :
       \E unavailable \in Unavailable(moduleFullNameToRepositoryIDCache, name) :
          LET repositoryID == getRepositoryID(moduleFullNameToRepositoryIDCache, name,
                                              RepositoryCode(name, unavailable))
          IN  /\ moduleFullNameToRepositoryIDCache' = repositoryID.cache
              /\ IF repositoryID.err # {}
                 THEN lookupReturned' = {Lookup("IsBranchSynced", name, branchName, FALSE, {},
                                                repositoryID.err, <<>>)}
                 ELSE \E branch \in BranchAnswers :
                      lookupReturned' =
                          IF branch.code = "not_found"
                          THEN {Lookup("IsBranchSynced", name, branchName, FALSE, {}, {}, <<>>)}
                          ELSE IF branch.code # "ok"
                          THEN {Lookup("IsBranchSynced", name, branchName, FALSE, {},
                                       {SyncError(<<>>, branch.code)}, <<>>)}
                          ELSE {Lookup("IsBranchSynced", name, branchName,
                                       branch.lastUpdateGitCommitHash # "", {}, {}, <<>>)}
    /\ UNCHANGED <<bsrRepositories, bsrPages, moduleFullNameToDefaultBranchCache, releaseLookups>>
    /\ UNCHANGED <<builderVars, providerVars, lazyVars, cacheVars, keyVars, graphVars, b5Vars, inputVars, syncVars, pathVars>>

\* A call of GetBranchHead: the repository ID, the branch, then its latest commit.
GetBranchHead ==
    /\ \E name \in SyncModuleNames, branchName \in BranchNames :
       \E unavailable \in Unavailable(moduleFullNameToRepositoryIDCache, name) :
          LET repositoryID == getRepositoryID(moduleFullNameToRepositoryIDCache, name,
                                              RepositoryCode(name, unavailable))
          IN  /\ moduleFullNameToRepositoryIDCache' = repositoryID.cache
              /\ IF repositoryID.err # {}
                 THEN lookupReturned' = {Lookup("GetBranchHead", name, branchName, FALSE, {},
                                                repositoryID.err, <<>>)}
                 ELSE \E branch \in BranchAnswers :
                      IF branch.code = "not_found"
                      THEN lookupReturned' = {Lookup("GetBranchHead", name, branchName, FALSE, {}, {}, <<>>)}
                      ELSE IF branch.code # "ok"
                      THEN lookupReturned' = {Lookup("GetBranchHead", name, branchName, FALSE, {},
                                                     {SyncError(<<>>, branch.code)}, <<>>)}
                      ELSE IF branch.latestCommitName = ""
                      THEN lookupReturned' = {Lookup("GetBranchHead", name, branchName, FALSE, {}, {}, <<>>)}
                      ELSE \E commitCode \in {"ok", "not_found"} :
                           lookupReturned' =
                               IF commitCode # "ok"
                               THEN {Lookup("GetBranchHead", name, branchName, FALSE, {},
                                            {SyncError(<<>>, commitCode)}, <<>>)}
                               ELSE {Lookup("GetBranchHead", name, branchName, FALSE,
                                            {branch.latestCommitName}, {}, <<>>)}
    /\ UNCHANGED <<bsrRepositories, bsrPages, moduleFullNameToDefaultBranchCache, releaseLookups>>
    /\ UNCHANGED <<builderVars, providerVars, lazyVars, cacheVars, keyVars, graphVars, b5Vars, inputVars, syncVars, pathVars>>

ReleaseNext ==
    \/ IsReleaseBranch
    \/ IsProtectedBranch

SpecRelease == ReleaseInit /\ [][ReleaseNext]_vars

BranchNext ==
    \/ IsGitCommitSyncedToBranch
    \/ IsBranchSynced
    \/ GetBranchHead

SpecBranch == BranchInit /\ [][BranchNext]_vars

\* The only error of this lookup, if any, is that the registry was unavailable.
AnsweredUnlessUnavailable(r) == \A e \in r.err : e.code = "unavailable"

\* C32: while a module's repository does not exist on the registry, IsReleaseBranch
\* returns false for every branch name, on the first call as on later ones, and
\* the registry answers NotFound to it at most once per module name.
C32_NoReleaseBranchWithoutRepository ==
    /\ \A r \in lookupReturned :
          r.op = "IsReleaseBranch" /\ bsrRepositories[r.name] = {} =>
              ~r.value /\ AnsweredUnlessUnavailable(r)
    /\ \A name \in SyncModuleNames : releaseLookups[name] <= 1

\* C33: while a module's repository does not exist on the registry,
\* IsGitCommitSyncedToBranch, IsBranchSynced and GetBranchHead return false or a
\* nil head, with no error.
C33_NegativeWithoutRepository ==
    \A r \in lookupReturned :
        /\ r.op \in {"IsGitCommitSyncedToBranch", "IsBranchSynced", "GetBranchHead"}
        /\ bsrRepositories[r.name] = {}
        => ~r.value /\ r.head = {} /\ AnsweredUnlessUnavailable(r)

\* C34: IsGitCommitSyncedToBranch reads the listing from the first page on along
\* NextPageToken and returns true exactly if a page it was given has the branch
\* name; it requests no page after the first one with the name, and it returns
\* false once the page with the empty NextPageToken is read without a match.
C34_PagedBranchListing ==
    \A r \in lookupReturned :
        r.op = "IsGitCommitSyncedToBranch" /\ r.requests # <<>> =>
            LET last == Len(r.requests)
                given == r.requests[last].code = "ok"
            IN  /\ \A i \in 1..last : r.requests[i].page = i
                /\ \A i \in 1..(last - 1) :
                      r.requests[i].code = "ok" /\ r.branchName \notin bsrPages[i]
                /\ r.value <=> (given /\ r.branchName \in bsrPages[last])
                /\ given /\ ~r.value =>
                      /\ NextPageToken(bsrPages, last) = <<>>
                      /\ r.err = {}
                      /\ \A q \in DOMAIN bsrPages : r.branchName \notin bsrPages[q]

\* The branch was found on the second page of the listing, after a first page
\* without it.
C34_Witness ==
    \E r \in lookupReturned :
        /\ r.op = "IsGitCommitSyncedToBranch"
        /\ Len(r.requests) = 2
        /\ r.value
        /\ r.branchName \notin bsrPages[1]

\* The option fields an external config sets.
OptionsSet(externalConfig) == {key \in Range(OptionKeys) : externalConfig.options[key] # {}}

\* C35: newInputConfigFromExternalV2 succeeds exactly if one input kind field is
\* set and every option field that is set is in allowedOptionsForFormat of that
\* kind; otherwise it returns an error and no config.
C35_ExternalV2Validation ==
    \A call \in inputCall :
        call.op = "FromExternalV2" =>
            /\ call.err = {} <=>
                  /\ Cardinality(call.specified) = 1
                  /\ \A kind \in call.specified :
                        OptionsSet(Only(call.external)) \subseteq allowedOptionsForFormat[kind]
            /\ call.err # {} => call.config = {}
            /\ call.err = {} => call.config # {}

\* A tarball with its subdir and strip_components options was accepted.
C35_Witness ==
    \E call \in inputCall :
        /\ call.op = "FromExternalV2"
        /\ call.specified = {InputConfigTypeTarball}
        /\ OptionsSet(Only(call.external)) = {"subdir", "strip_components"}
        /\ call.err = {}
        /\ call.config # {}

(***************************************************************************)
(* The controller's function options (buf/bufcli/controller.go): the       *)
(* target paths given on the command line are translated to paths          *)
(* relative to the bucket that was read.                                   *)
(***************************************************************************)

\* The most paths in targetPaths and in targetExcludePaths.
MaxTargetPaths == 2

\* The paths given on the command line.
ExternalPaths == {"dir/a.proto", "dir/b.proto", "other/c.proto"}

\* bucketExtender.PathForExternalPath for a bucket read at "dir": the path relative
\* to the bucket, or an error for a path outside it.
PathForExternalPath(externalPath) ==
    IF externalPath = "dir/a.proto" THEN [path |-> "a.proto", err |-> {}]
    ELSE IF externalPath = "dir/b.proto" THEN [path |-> "b.proto", err |-> {}]
    ELSE [path |-> "", err |-> {NewError(<<"path is outside the bucket", externalPath>>)}]

\* The elements of a slice.
View(slice) == SubSeq(slice.array, 1, slice.len)

\* The slices a caller holds: up to MaxTargetPaths paths, in an array with or
\* without one spare element.
PathSlices ==
    UNION {{Slice(paths \o spare, n) : paths \in [1..n -> ExternalPaths], spare \in {<<>>, <<"">>}}
           : n \in 0..MaxTargetPaths}

\* append(slice, elem): written in place if the array has room, and otherwise into
\* a new array twice as long that the elements are copied to.
appendSlice(slice, elem) ==
    LET cap == Len(slice.array)
    IN  IF slice.len < cap
        THEN Slice([slice.array EXCEPT ![slice.len + 1] = elem], slice.len + 1)
        ELSE LET newcap == IF cap = 0 THEN 1 ELSE 2 * cap
             IN  Slice([i \in 1..newcap |->
                           IF i <= slice.len THEN slice.array[i]
                           ELSE IF i = slice.len + 1 THEN elem ELSE ""],
                       slice.len + 1)

\* One loop of withPathsForBucketExtender, from element i of the slice that is
\* ranged over: the copy's slice, the receiver's array (written to while the copy
\* still points into it) and the error.
RECURSIVE translateLoop(_, _, _, _)
translateLoop(ranged, i, slice, receiverArray) ==
    IF i > ranged.len THEN [slice |-> slice, receiverArray |-> receiverArray, err |-> {}]
    ELSE LET translated == PathForExternalPath(ranged.array[i])
             appended == appendSlice(slice, translated.path)
             inPlace == slice.len < Len(slice.array) /\ slice.array = receiverArray
         IN  IF translated.err # {}
             THEN [slice |-> slice, receiverArray |-> receiverArray, err |-> translated.err]
             ELSE translateLoop(ranged, i + 1, appended,
                                IF inPlace THEN appended.array ELSE receiverArray)

\* withPathsForBucketExtender: the options returned, the receiver after the call
\* and the error. The copy c starts with the receiver's slices.
withPathsForBucketExtender(f) ==
    LET targets == translateLoop(f.targetPaths, 1, f.targetPaths, f.targetPaths.array)
        excludes == translateLoop(f.targetExcludePaths, 1, f.targetExcludePaths,
                                  f.targetExcludePaths.array)
        afterTargets == [f EXCEPT !.targetPaths.array = targets.receiverArray]
    IN  IF targets.err # {}
        THEN [options |-> {}, receiver |-> afterTargets, err |-> targets.err]
        ELSE IF excludes.err # {}
        THEN [options |-> {},
              receiver |-> [afterTargets EXCEPT !.targetExcludePaths.array = excludes.receiverArray],
              err |-> excludes.err]
        ELSE [options |-> {[targetPaths |-> targets.slice, targetExcludePaths |-> excludes.slice]},
              receiver |-> [afterTargets EXCEPT !.targetExcludePaths.array = excludes.receiverArray],
              err |-> {}]

PathsInit ==
    /\ functionOptions \in [targetPaths : PathSlices, targetExcludePaths : PathSlices]
    /\ pathsCall = {}
    /\ InputIdle
    /\ SyncIdle
    /\ LookupIdle
    /\ BuilderIdle
    /\ ProviderIdle
    /\ LazyIdle
    /\ KeyIdle
    /\ CacheIdle
    /\ GraphIdle
    /\ B5Idle

\* getWorkspaceForSourceRef calls withPathsForBucketExtender on its function options.
WithPathsForBucketExtender ==
    /\ pathsCall = {}
    /\ LET got == withPathsForBucketExtender(functionOptions)
       IN  /\ functionOptions' = got.receiver
           /\ pathsCall' = {[given |-> [targetPaths |-> View(functionOptions.targetPaths),
                                        targetExcludePaths |-> View(functionOptions.targetExcludePaths)],
                             options |-> got.options,
                             err |-> got.err]}
    /\ UNCHANGED <<builderVars, providerVars, lazyVars, cacheVars, keyVars, graphVars, b5Vars, inputVars, syncVars, lookupVars>>

PathsNext == WithPathsForBucketExtender

SpecPaths == PathsInit /\ [][PathsNext]_vars

\* The translations of these paths, one per path and in their order.
Translations(paths) == [i \in DOMAIN paths |-> PathForExternalPath(paths[i]).path]

\* One of these paths has no translation.
TranslationFails(paths) == \E i \in DOMAIN paths : PathForExternalPath(paths[i]).err # {}

\* C36: withPathsForBucketExtender returns options whose targetPaths and
\* targetExcludePaths are the translations of the given paths, one per path and in
\* the same order, and leaves the receiver's path lists as they were; if a
\* translation fails it returns an error and no options.
C36_TranslatedPathsOnly ==
    \A call \in pathsCall :
        LET fails == TranslationFails(call.given.targetPaths)
                        \/ TranslationFails(call.given.targetExcludePaths)
        IN  /\ View(functionOptions.targetPaths) = call.given.targetPaths
            /\ View(functionOptions.targetExcludePaths) = call.given.targetExcludePaths
            /\ fails <=> call.err # {}
            /\ call.err # {} => call.options = {}
            /\ call.err = {} =>
                  /\ call.options # {}
                  /\ View(Only(call.options).targetPaths) = Translations(call.given.targetPaths)
                  /\ View(Only(call.options).targetExcludePaths)
                        = Translations(call.given.targetExcludePaths)

====
